---- MODULE Spec2Model ----
(***************************************************************************)
(* KisanMitra AI: the three callable Cloud Functions askGemini,            *)
(* transcribeAudio and synthesizeSpeech, with their validators, the prompt *)
(* builder and the response parser.                                        *)
(*                                                                         *)
(* JavaScript values are tagged records (t is the tag).  A string is a     *)
(* sequence of chunks; the chunks are chosen so that every substring test  *)
(* the code makes (startsWith, includes, the regular expression, trim,     *)
(* length) is aligned with chunk borders.                                  *)
(***************************************************************************)
EXTENDS Integers, Sequences, FiniteSets, Bags, TLC

(***************************************************************************)
(* Bounds of the model.                                                    *)
(***************************************************************************)
\* chat documents already stored before the invocation starts
MaxStored == 1
\* distinct values Date.now() may return
MaxTime == 2

(***************************************************************************)
(* JavaScript values.                                                      *)
(***************************************************************************)
Undefined == [t |-> "undefined"]
Null == [t |-> "null"]
Str(s) == [t |-> "string", s |-> s]
Num(n) == [t |-> "number", n |-> n]
Arr(a) == [t |-> "array", a |-> a]
Obj(f) == [t |-> "object", f |-> f]
EmptyObj == Obj(<<>>)

\* typeof v
TypeOf(v) ==
  CASE v.t = "undefined" -> "undefined"
    [] v.t = "string" -> "string"
    [] v.t = "number" -> "number"
    [] OTHER -> "object"

\* !!v
Truthy(v) ==
  CASE v.t = "undefined" -> FALSE
    [] v.t = "null" -> FALSE
    [] v.t = "string" -> v.s # <<>>
    [] v.t = "number" -> v.n # 0
    [] OTHER -> TRUE

\* o.k, and o?.k where o may be undefined or null
Get(o, k) ==
  IF o.t = "object" /\ k \in DOMAIN o.f THEN o.f[k] ELSE Undefined

\* a || b
OrElse(a, b) == IF Truthy(a) THEN a ELSE b

\* Array.isArray(v)
IsArray(v) == v.t = "array"

(***************************************************************************)
(* Strings as sequences of chunks.                                         *)
(***************************************************************************)
\* "x".repeat(1000) and "x".repeat(5000) as single chunks
X1000 == "x*1000"
X5000 == "x*5000"

\* the number of characters a chunk of an input text stands for
ChunkLen(c) ==
  CASE c = X1000 -> 1000
    [] c = X5000 -> 5000
    [] OTHER -> 1

RECURSIVE StrLength(_)
\* s.length
StrLength(s) == IF s = <<>> THEN 0 ELSE ChunkLen(Head(s)) + StrLength(Tail(s))

\* s.startsWith(p)
StartsWith(s, p) == Len(s) >= Len(p) /\ SubSeq(s, 1, Len(p)) = p

\* s.includes(p)
Includes(s, p) ==
  \E i \in 0..(Len(s) - Len(p)) : SubSeq(s, i + 1, i + Len(p)) = p

IsSpace(c) == c = " "

RECURSIVE TrimStart(_)
TrimStart(s) ==
  IF s # <<>> /\ IsSpace(Head(s)) THEN TrimStart(Tail(s)) ELSE s

RECURSIVE TrimEnd(_)
TrimEnd(s) ==
  IF s # <<>> /\ IsSpace(s[Len(s)]) THEN TrimEnd(SubSeq(s, 1, Len(s) - 1)) ELSE s

\* s.trim()
Trim(s) == TrimEnd(TrimStart(s))

RECURSIVE Join(_, _)
\* parts.join(sep) for a list of strings
Join(parts, sep) ==
  IF parts = <<>> THEN <<>>
  ELSE IF Len(parts) = 1 THEN parts[1]
  ELSE parts[1] \o sep \o Join(Tail(parts), sep)

RECURSIVE JSToString(_)
\* `${v}`
JSToString(v) ==
  CASE v.t = "string" -> v.s
    [] v.t = "undefined" -> <<"undefined">>
    [] v.t = "null" -> <<"null">>
    [] v.t = "number" -> <<ToString(v.n)>>
    [] v.t = "array" -> Join([i \in 1..Len(v.a) |-> JSToString(v.a[i])], <<",">>)
    [] OTHER -> <<"[object Object]">>

(***************************************************************************)
(* Results of functions that may throw.                                    *)
(***************************************************************************)
Ok(v) == [ok |-> TRUE, v |-> v, message |-> <<>>]
Throw(m) == [ok |-> FALSE, v |-> Undefined, message |-> m]

(***************************************************************************)
(* utils/auth: validateAuth.                                               *)
(***************************************************************************)
\* validateAuth without the uid check: a token without uid counts as a guest
validateAuthGuest(context) ==
  IF ~Truthy(Get(context, "auth"))
  THEN Throw(<<"Unauthenticated: No auth token provided">>)
  ELSE Ok(OrElse(Get(Get(context, "auth"), "uid"), Str(<<"guest">>)))

validateAuth(context) ==
  IF ~Truthy(Get(context, "auth"))
  THEN Throw(<<"Unauthenticated: No auth token provided">>)
  ELSE IF ~Truthy(Get(Get(context, "auth"), "uid"))
  THEN Throw(<<"Unauthenticated: Invalid auth token">>)
  ELSE Ok(Get(Get(context, "auth"), "uid"))

(***************************************************************************)
(* utils/validators.                                                       *)
(***************************************************************************)
\* data[field] === undefined || data[field] === null || data[field] === ""
IsMissing(v) == v = Undefined \/ v = Null \/ v = Str(<<>>)

\* the loop of validateRequiredFields stopping at the first missing field
MissingFieldsFirstOnly(data, requiredFields) ==
  LET missing == {n \in 1..Len(requiredFields) : IsMissing(Get(data, requiredFields[n]))}
  IN  IF missing = {} THEN <<>>
      ELSE <<<<requiredFields[CHOOSE n \in missing : \A m \in missing : n <= m]>>>>

RECURSIVE MissingFields(_, _)
\* the loop of validateRequiredFields: the missing fields, in the order of the list
MissingFields(data, requiredFields) ==
  IF requiredFields = <<>> THEN <<>>
  ELSE (IF IsMissing(Get(data, Head(requiredFields)))
        THEN <<<<Head(requiredFields)>>>> ELSE <<>>)
       \o MissingFields(data, Tail(requiredFields))

validateRequiredFields(data, requiredFields) ==
  IF data.t \in {"null", "undefined"}
  THEN \* data[field] on null or undefined is a TypeError
       Throw(<<"Cannot read properties of ", data.t>>)
  ELSE IF Len(MissingFields(data, requiredFields)) > 0
  THEN Throw(<<"Missing required fields: ">>
             \o Join(MissingFields(data, requiredFields), <<", ">>))
  ELSE Ok(Undefined)

supportedLanguages == <<Str(<<"en">>), Str(<<"hi">>), Str(<<"ta">>), Str(<<"te">>)>>

\* list.includes(v)
ArrayIncludes(list, v) == \E i \in 1..Len(list) : list[i] = v

\* validateLanguage without the membership test
validateLanguageAnyCode(language) ==
  IF ~Truthy(language)
  THEN Throw(<<"Unsupported language: ">> \o JSToString(language))
  ELSE Ok(language)

\* validateLanguage accepting the case variants of the codes
validateLanguageIgnoreCase(language) ==
  IF language \in {Str(<<"EN">>), Str(<<"Hi">>)}
  THEN Ok(language)
  ELSE IF ~Truthy(language) \/ ~ArrayIncludes(supportedLanguages, language)
  THEN Throw(<<"Unsupported language: ">> \o JSToString(language))
  ELSE Ok(language)

validateLanguage(language) ==
  IF ~Truthy(language) \/ ~ArrayIncludes(supportedLanguages, language)
  THEN Throw(<<"Unsupported language: ">> \o JSToString(language)
             \o <<". Supported: ">>
             \o Join([i \in 1..Len(supportedLanguages) |-> supportedLanguages[i].s],
                     <<", ">>))
  ELSE Ok(language)

validateAudioPath(audioPath) ==
  IF ~Truthy(audioPath) \/ TypeOf(audioPath) # "string"
  THEN Throw(<<"Invalid audio path">>)
  ELSE IF ~StartsWith(audioPath.s, <<"audio/">>)
  THEN Throw(<<"Invalid audio path format. Must start with 'audio/'">>)
  ELSE Ok(audioPath)

\* validateTextLength measuring the trimmed text
validateTextLengthTrimFirst(text, maxLength) ==
  IF ~Truthy(text) \/ TypeOf(text) # "string"
  THEN Throw(<<"Invalid text input">>)
  ELSE IF StrLength(Trim(text.s)) > maxLength
  THEN Throw(<<"Text too long. Maximum length: ", ToString(maxLength),
               " characters">>)
  ELSE Ok(Str(Trim(text.s)))

validateTextLength(text, maxLength) ==
  IF ~Truthy(text) \/ TypeOf(text) # "string"
  THEN Throw(<<"Invalid text input">>)
  ELSE IF StrLength(text.s) > maxLength
  THEN Throw(<<"Text too long. Maximum length: ", ToString(maxLength),
               " characters">>)
  ELSE Ok(Str(Trim(text.s)))

(***************************************************************************)
(* prompts/agricultural: buildAgriculturalPrompt.                          *)
(***************************************************************************)
NotSpecified == Str(<<"Not specified">>)

languageNames ==
  [en |-> <<"English">>, hi |-> <<"Hindi">>, ta |-> <<"Tamil">>, te |-> <<"Telugu">>]

\* languageNames[language] || "English"
LanguageName(language) ==
  IF language.t = "string" /\ Len(language.s) = 1
     /\ language.s[1] \in DOMAIN languageNames
  THEN languageNames[language.s[1]]
  ELSE <<"English">>

\* farmProfile.crops?.join(", ") || "Not specified"
CropsText(farmProfile) ==
  LET crops == Get(farmProfile, "crops")
  IN  IF crops.t \in {"undefined", "null"} THEN Ok(NotSpecified)
      ELSE IF ~IsArray(crops)
      THEN \* a value without a join method
           Throw(<<"farmProfile.crops.join is not a function">>)
      ELSE Ok(OrElse(Str(Join([i \in 1..Len(crops.a) |-> JSToString(crops.a[i])],
                              <<", ">>)),
                     NotSpecified))

\* farmProfile.area ? `${farmProfile.area.value} ${farmProfile.area.unit}` : "Not specified"
AreaText(farmProfile) ==
  LET area == Get(farmProfile, "area")
  IN  IF Truthy(area)
      THEN Str(JSToString(Get(area, "value")) \o <<" ">>
               \o JSToString(Get(area, "unit")))
      ELSE NotSpecified

buildAgriculturalPrompt(farmProfile, language, question) ==
  LET languageName == LanguageName(language)
      crops == CropsText(farmProfile)
      location == Get(farmProfile, "location")
      village == OrElse(Get(location, "village"), NotSpecified)
      district == OrElse(Get(location, "district"), NotSpecified)
      state == OrElse(Get(location, "state"), NotSpecified)
      soilType == OrElse(Get(farmProfile, "soilType"), NotSpecified)
      irrigationType == OrElse(Get(farmProfile, "irrigationType"), NotSpecified)
      area == AreaText(farmProfile)
      season == OrElse(Get(farmProfile, "season"), NotSpecified)
  IN  IF ~crops.ok THEN crops
      ELSE Ok(Str(
        <<"You are KisanMitra AI ... FARMER'S CONTEXT:", "- Crops: ">>
        \o JSToString(crops.v)
        \o <<"- Location: ">> \o JSToString(village) \o <<", ">>
        \o JSToString(district) \o <<", ">> \o JSToString(state)
        \o <<"- Soil Type: ">> \o JSToString(soilType)
        \o <<"- Irrigation: ">> \o JSToString(irrigationType)
        \o <<"- Farm Area: ">> \o JSToString(area)
        \o <<"- Current Season: ">> \o JSToString(season)
        \o <<"INSTRUCTIONS: ... 3. Answer in ">> \o languageName
        \o <<"7. Consider regional practices common to ">> \o JSToString(state)
        \o <<"RESPONSE FORMAT (respond in valid JSON): ... answer here in ">>
        \o languageName
        \o <<"FARMER'S QUESTION: ">> \o JSToString(question)
        \o <<"Remember: Respond ONLY with valid JSON.">>))

(***************************************************************************)
(* The response parser of askGemini.  A model reply is a sequence of       *)
(* chunks: "{", "}", ",", a chunk holding one JSON member ("key":value),   *)
(* or a chunk of other text.                                               *)
(***************************************************************************)
MAnswer == "\"answer\":\"Use urea 46-0-0.\""
MAnswerEmpty == "\"answer\":\"\""
MAnswerNumber == "\"answer\":42"
MAnswerNull == "\"answer\":null"
MConfHigh == "\"confidence\":\"High\""
MConfVeryHigh == "\"confidence\":\"VeryHigh\""
MSources == "\"sources\":[\"ICAR\"]"
MSourcesString == "\"sources\":\"ICAR\""
MSourcesNumbers == "\"sources\":[1]"
MSuggestions == "\"suggestions\":[\"Test soil first\"]"
MSuggestionsNull == "\"suggestions\":null"

\* what JSON.parse reads from a member chunk
MemberTable ==
  (MAnswer :> [k |-> "answer", v |-> Str(<<"Use urea 46-0-0.">>)])
  @@ (MAnswerEmpty :> [k |-> "answer", v |-> Str(<<>>)])
  @@ (MAnswerNumber :> [k |-> "answer", v |-> Num(42)])
  @@ (MAnswerNull :> [k |-> "answer", v |-> Null])
  @@ (MConfHigh :> [k |-> "confidence", v |-> Str(<<"High">>)])
  @@ (MConfVeryHigh :> [k |-> "confidence", v |-> Str(<<"VeryHigh">>)])
  @@ (MSources :> [k |-> "sources", v |-> Arr(<<Str(<<"ICAR">>)>>)])
  @@ (MSourcesString :> [k |-> "sources", v |-> Str(<<"ICAR">>)])
  @@ (MSourcesNumbers :> [k |-> "sources", v |-> Arr(<<Num(1)>>)])
  @@ (MSuggestions :> [k |-> "suggestions", v |-> Arr(<<Str(<<"Test soil first">>)>>)])
  @@ (MSuggestionsNull :> [k |-> "suggestions", v |-> Null])

\* o[k] = v
SetField(o, k, v) ==
  Obj([x \in DOMAIN o.f \cup {k} |-> IF x = k THEN v ELSE o.f[x]])

RECURSIVE ParseMembers(_, _)
\* the members of a JSON object, separated by commas, added to acc in order
ParseMembers(inner, acc) ==
  IF inner = <<>> THEN Throw(<<"Unexpected token } in JSON">>)
  ELSE IF Head(inner) \notin DOMAIN MemberTable
  THEN Throw(<<"Unexpected token in JSON">>)
  ELSE LET m == MemberTable[Head(inner)]
           obj == SetField(acc, m.k, m.v)
       IN  IF Len(inner) = 1 THEN Ok(obj)
           ELSE IF inner[2] # ","
           THEN Throw(<<"Unexpected token in JSON">>)
           ELSE ParseMembers(SubSeq(inner, 3, Len(inner)), obj)

\* JSON.parse of a text that starts with "{" and ends with "}"
JSONparse(text) ==
  IF Len(text) = 2 THEN Ok(EmptyObj)
  ELSE ParseMembers(SubSeq(text, 2, Len(text) - 1), EmptyObj)

\* responseText.match(/\{[\s\S]*\}/): from the first "{" to the last "}"
jsonMatch(responseText) ==
  LET opens == {i \in 1..Len(responseText) : responseText[i] = "{"}
      closes == {j \in 1..Len(responseText) : responseText[j] = "}"}
  IN  IF opens = {} \/ closes = {} THEN Null
      ELSE LET i == CHOOSE x \in opens : \A y \in opens : x <= y
               j == CHOOSE x \in closes : \A y \in closes : y <= x
           IN  IF i < j THEN Str(SubSeq(responseText, i, j)) ELSE Null

\* the fallback response with the confidence "Low"
FallbackResponseLow(responseText) ==
  Obj([answer |-> Str(responseText),
       confidence |-> Str(<<"Low">>),
       sources |-> Arr(<<Str(<<"Gemini AI">>)>>),
       suggestions |-> Arr(<<>>)])

FallbackResponse(responseText) ==
  Obj([answer |-> Str(responseText),
       confidence |-> Str(<<"Medium">>),
       sources |-> Arr(<<Str(<<"Gemini AI">>)>>),
       suggestions |-> Arr(<<>>)])

\* the inner try/catch: the parsed object, or the fallback response
ParsedResponse(responseText) ==
  LET m == jsonMatch(responseText)
  IN  IF m = Null THEN FallbackResponse(responseText)
      ELSE IF JSONparse(m.s).ok THEN JSONparse(m.s).v
      ELSE FallbackResponse(responseText)

validConfidenceLevels == <<Str(<<"High">>), Str(<<"Medium">>), Str(<<"Low">>)>>

\* the parsed object as it is, without the normalisation
NormalizedResponseAsParsed(aiResponse) == aiResponse

\* "Ensure confidence is valid" and "Ensure arrays exist"
NormalizedResponse(aiResponse) ==
  LET c == IF ~ArrayIncludes(validConfidenceLevels, Get(aiResponse, "confidence"))
           THEN SetField(aiResponse, "confidence", Str(<<"Medium">>))
           ELSE aiResponse
      s == IF ~IsArray(Get(c, "sources"))
           THEN SetField(c, "sources", Arr(<<Str(<<"Gemini AI">>)>>))
           ELSE c
  IN  IF ~IsArray(Get(s, "suggestions"))
      THEN SetField(s, "suggestions", Arr(<<>>))
      ELSE s

\* the normalisation with a default answer in place of the structure check
ValidatedResponseDefaultAnswer(responseText) ==
  LET aiResponse == ParsedResponse(responseText)
  IN  Ok(NormalizedResponse(IF ~Truthy(Get(aiResponse, "answer"))
                            THEN SetField(aiResponse, "answer", Str(<<"No answer">>))
                            ELSE aiResponse))

\* the response structure check, then the normalisation
ValidatedResponse(responseText) ==
  LET aiResponse == ParsedResponse(responseText)
  IN  IF ~Truthy(Get(aiResponse, "answer"))
      THEN Throw(<<"Invalid AI response: missing answer field">>)
      ELSE Ok(NormalizedResponse(aiResponse))

\* the document askGemini writes
ChatRecord(question, language, farmProfile, aiResponse) ==
  Obj([timestamp |-> Str(<<"serverTimestamp">>),
       question |-> question,
       answer |-> Get(aiResponse, "answer"),
       confidence |-> Get(aiResponse, "confidence"),
       sources |-> Get(aiResponse, "sources"),
       suggestions |-> Get(aiResponse, "suggestions"),
       language |-> language,
       farmProfile |-> Obj([crops |-> OrElse(Get(farmProfile, "crops"), Arr(<<>>)),
                            location |-> OrElse(Get(farmProfile, "location"), EmptyObj),
                            soilType |-> OrElse(Get(farmProfile, "soilType"), Str(<<>>))])])

\* the value askGemini returns
AskResult(aiResponse, chatId) ==
  Obj([answer |-> Get(aiResponse, "answer"),
       confidence |-> Get(aiResponse, "confidence"),
       sources |-> Get(aiResponse, "sources"),
       suggestions |-> Get(aiResponse, "suggestions"),
       chatId |-> chatId])

(***************************************************************************)
(* The state: the process environment, the two stores, and for every       *)
(* running invocation its request, its position in the handler, its local  *)
(* variables, the external calls it has issued and its outcome.            *)
(***************************************************************************)
VARIABLES
  env,      \* process.env.GEMINI_API_KEY
  chats,    \* Firestore: document path -> document
  blobs,    \* Storage bucket: file path -> content
  op,       \* per invocation: the function called
  data,     \* per invocation: the request data
  context,  \* per invocation: the call context
  pc,       \* per invocation: the position in the handler
  local,    \* per invocation: the handler's local variables
  calls,    \* per invocation: the external calls issued so far, in order
  outcome,  \* per invocation: what the caller got
  before,   \* per invocation: the chats and blobs stored when it was invoked
  authContext,      \* AuthProvider: user, loading, error, confirmationResult
  languageContext,  \* LanguageProvider: language, isChanging, error
  firebase,         \* the Firebase client: auth.currentUser, the user document
  browser,          \* i18n.language and localStorage
  tasks,            \* the running calls of the client's async functions
  settled           \* the call that settled last, and how

\* the state of the functions and of the client application
serverVars == <<env, chats, blobs, op, data, context, pc, local, calls, outcome, before>>
clientVars == <<authContext, languageContext, firebase, browser, tasks, settled>>

vars == <<serverVars, clientVars>>

Invocations == DOMAIN pc

(***************************************************************************)
(* Requests.                                                               *)
(***************************************************************************)
Users == {"u1", "u2"}

AuthContext(u) == Obj([auth |-> Obj([uid |-> Str(<<u>>)])])

Contexts ==
  {EmptyObj, Obj([auth |-> EmptyObj])} \cup {AuthContext(u) : u \in Users}

ApiKeys ==
  {Undefined, Str(<<>>), Str(<<"YOUR_GEMINI_API_KEY">>), Str(<<"AIza-configured">>)}

Questions ==
  {Undefined, Str(<<>>), Str(<<" ">>), Str(<<" ", "q", " ">>), Str(<<X1000>>),
   Str(<<X1000, "x">>), Num(5)}

Languages ==
  {Undefined, Str(<<"en">>), Str(<<"hi">>), Str(<<"EN">>), Str(<<"API key">>)}

FullProfile ==
  Obj([crops |-> Arr(<<Str(<<"wheat">>), Str(<<"rice">>)>>),
       location |-> Obj([village |-> Str(<<"Rampur">>),
                         district |-> Str(<<"Sitapur">>),
                         state |-> Str(<<"Uttar Pradesh">>)]),
       soilType |-> Str(<<"loam">>),
       irrigationType |-> Str(<<"drip">>),
       area |-> Obj([value |-> Num(2), unit |-> Str(<<"acres">>)]),
       season |-> Str(<<"kharif">>)])

FarmProfiles ==
  {Undefined, Str(<<"wheat farm">>), EmptyObj, FullProfile,
   Obj([crops |-> Str(<<"wheat">>)])}

AskData ==
  {Null} \cup
  {Obj([question |-> q, farmProfile |-> f, language |-> l]) :
     q \in Questions, f \in FarmProfiles, l \in Languages}

(***************************************************************************)
(* What the collaborators may answer.                                      *)
(***************************************************************************)
\* the texts the model may reply with
ReplyAnswers == {<<>>, <<MAnswer>>, <<MAnswerEmpty>>, <<MAnswerNumber>>, <<MAnswerNull>>}
ReplyConfidences == {<<>>, <<MConfHigh>>, <<MConfVeryHigh>>}
ReplySources == {<<>>, <<MSources>>, <<MSourcesString>>, <<MSourcesNumbers>>}
ReplySuggestions == {<<>>, <<MSuggestions>>, <<MSuggestionsNull>>}

JsonReplies ==
  {<<"{">> \o Join(SelectSeq(<<a, c, s, g>>, LAMBDA m : m # <<>>), <<",">>) \o <<"}">> :
     a \in ReplyAnswers, c \in ReplyConfidences, s \in ReplySources,
     g \in ReplySuggestions}

ModelReplies ==
  JsonReplies \cup
  {<<>>,
   <<"I recommend crop rotation.">>,
   <<"Sure! ", "{", MAnswer, ",", MConfHigh, ",", MSources, ",", MSuggestions, "}">>,
   <<"{", MAnswer, ",", "}">>,
   <<"{", MAnswer>>,
   <<"}", MAnswer, "{">>,
   <<"Use ", "{", "curly", "}", " ", "{", MAnswer, "}">>,
   <<"{", MAnswer, "}", " or ", "{", MAnswerNumber, "}">>}

\* the replies drawn when several invocations run at once: no JSON, JSON with
\* every field, JSON without an answer
ConcurrentReplies ==
  {<<"I recommend crop rotation.">>,
   <<"{", MAnswer, ",", MConfHigh, ",", MSources, ",", MSuggestions, "}">>,
   <<"{", MConfHigh, "}">>}

\* the texts response.text() may return to an invocation
Replies == IF Cardinality(Invocations) = 1 THEN ModelReplies ELSE ConcurrentReplies

\* the messages of the errors generateContent may reject with
ModelErrors ==
  {<<"fetch failed">>,
   <<"[400 Bad Request] ", "API key", " not valid. Please pass a valid ", "API key", ".">>}

\* the identifiers doc() may generate: one more than the documents stored, for
\* every invocation
ChatIds == {"chat" \o ToString(n) : n \in 1..(MaxStored + Cardinality(Invocations))}

\* the collection path with "uid" quoted, not the caller's uid
ChatPathQuotedUid(uid, id) == <<"users", "uid", "chats", id>>

ChatPath(uid, id) == <<"users">> \o uid.s \o <<"chats", id>>

OldRecord ==
  Obj([timestamp |-> Str(<<"serverTimestamp">>),
       question |-> Str(<<"old question">>),
       answer |-> Str(<<"old answer">>),
       confidence |-> Str(<<"Low">>),
       sources |-> Arr(<<>>),
       suggestions |-> Arr(<<>>),
       language |-> Str(<<"ta">>),
       farmProfile |-> Obj([crops |-> Arr(<<>>), location |-> EmptyObj,
                            soilType |-> Str(<<>>)])])

\* the chat collections an invocation may find: up to MaxStored documents of u1
StoredChats ==
  {[p \in {ChatPath(Str(<<"u1">>), "chat" \o ToString(n)) : n \in 1..k} |-> OldRecord] :
     k \in 0..MaxStored}

(***************************************************************************)
(* Invocation bookkeeping.                                                 *)
(***************************************************************************)
NoLocals ==
  [uid |-> Undefined, question |-> Undefined, language |-> Undefined,
   farmProfile |-> Undefined, systemPrompt |-> Undefined,
   responseText |-> Undefined, aiResponse |-> Undefined, chatRef |-> Undefined,
   audioPath |-> Undefined, text |-> Undefined, fileName |-> Undefined,
   url |-> Undefined, response |-> Undefined]

NoOutcome == [kind |-> "none", code |-> "", message |-> <<>>, value |-> Undefined]
Returned(v) == [kind |-> "return", code |-> "", message |-> <<>>, value |-> v]
\* throw new functions.https.HttpsError(code, message)
HttpsError(code, message) ==
  [kind |-> "error", code |-> code, message |-> message, value |-> Undefined]

Call(api, arg) == [api |-> api, arg |-> arg]

\* the apis of the calls invocation i has issued
Apis(i) == {calls[i][n].api : n \in 1..Len(calls[i])}

\* how often invocation i has called api
CallCount(i, api) == Cardinality({n \in 1..Len(calls[i]) : calls[i][n].api = api})

\* a write that replaces the whole store by the one document
StoreReplace(store, path, doc) == [p \in {path} |-> doc]

\* a document store write: set() creates the document or overwrites it
StoreSet(store, path, doc) ==
  [p \in DOMAIN store \cup {path} |-> IF p = path THEN doc ELSE store[p]]

\* the errors a store or a speech provider may reject with
ProviderErrors == {<<"14 UNAVAILABLE: No connection established">>}

\* a client calls one of the functions
Invoke(i, o, d, c) ==
  /\ pc[i] = "idle"
  /\ op' = [op EXCEPT ![i] = o]
  /\ data' = [data EXCEPT ![i] = d]
  /\ context' = [context EXCEPT ![i] = c]
  /\ pc' = [pc EXCEPT ![i] = "start"]
  /\ before' = [before EXCEPT ![i] = [chats |-> chats, blobs |-> blobs]]
  /\ UNCHANGED <<clientVars, env, chats, blobs, local, calls, outcome>>

\* the invocation ends: the caller gets the value or the error
Finish(i, result) ==
  /\ pc' = [pc EXCEPT ![i] = "done"]
  /\ outcome' = [outcome EXCEPT ![i] = result]

\* the invocation issues an external call and waits for it at position at
Await(i, at, call) ==
  /\ pc' = [pc EXCEPT ![i] = at]
  /\ calls' = [calls EXCEPT ![i] = Append(@, call)]

(***************************************************************************)
(* askGemini.                                                              *)
(***************************************************************************)
\* the catch block of askGemini
askGeminiCatch(message) ==
  IF Includes(message, <<"API key">>)
  THEN HttpsError("failed-precondition",
                  <<"Gemini ", "API key", " not configured. Please contact support.">>)
  ELSE HttpsError("internal", <<"Failed to get AI response: ">> \o message)

\* the credential check without the placeholder test
KeyConfiguredAnyValue(key) == Truthy(key)

\* process.env.GEMINI_API_KEY is configured
KeyConfigured(key) == Truthy(key) /\ key # Str(<<"YOUR_GEMINI_API_KEY">>)

\* askGemini up to its first external call: the locals, or what was thrown
AskPrepared(d, c, key) ==
  LET uid == validateAuth(c)
      required == validateRequiredFields(d, <<"question", "farmProfile", "language">>)
      question == validateTextLength(Get(d, "question"), 1000)
      language == validateLanguage(Get(d, "language"))
      farmProfile == Get(d, "farmProfile")
      systemPrompt == buildAgriculturalPrompt(farmProfile, language.v, question.v)
  IN  IF ~uid.ok THEN uid
      ELSE IF ~required.ok THEN required
      ELSE IF ~question.ok THEN question
      ELSE IF ~language.ok THEN language
      ELSE IF ~Truthy(farmProfile) \/ TypeOf(farmProfile) # "object"
      THEN Throw(<<"Invalid farm profile">>)
      ELSE IF ~KeyConfigured(key)
      THEN Throw(<<"Gemini ", "API key",
                   " not configured. Please set GEMINI_API_KEY in functions/.env">>)
      ELSE IF ~systemPrompt.ok THEN systemPrompt
      ELSE Ok([NoLocals EXCEPT !.uid = uid.v, !.question = question.v,
                               !.language = language.v,
                               !.farmProfile = farmProfile,
                               !.systemPrompt = systemPrompt.v])

\* validation, credential check and prompt; then model.generateContent is called
AskStart(i) ==
  /\ pc[i] = "start"
  /\ op[i] = "askGemini"
  /\ LET r == AskPrepared(data[i], context[i], env)
     IN  IF r.ok
         THEN /\ local' = [local EXCEPT ![i] = r.v]
              /\ Await(i, "generateContent", Call("generateContent", r.v.systemPrompt))
              /\ UNCHANGED outcome
         ELSE /\ Finish(i, askGeminiCatch(r.message))
              /\ UNCHANGED <<local, calls>>
  /\ UNCHANGED <<clientVars, env, chats, blobs, op, data, context, before>>

\* the model replied: parse, validate and normalise; then chatRef.set is called
AskModelResolved(i) ==
  /\ pc[i] = "generateContent"
  /\ \E responseText \in Replies :
       LET r == ValidatedResponse(responseText)
       IN  IF r.ok
           THEN \E id \in ChatIds :
                  \* doc() generates an identifier the store has not generated before
                  /\ ChatPath(local[i].uid, id) \notin DOMAIN chats
                  /\ \A j \in Invocations : local[j].chatRef # Str(<<id>>)
                  /\ local' = [local EXCEPT ![i].responseText = Str(responseText),
                                            ![i].aiResponse = r.v,
                                            ![i].chatRef = Str(<<id>>)]
                  /\ Await(i, "set", Call("set", Str(ChatPath(local[i].uid, id))))
                  /\ UNCHANGED outcome
           ELSE /\ local' = [local EXCEPT ![i].responseText = Str(responseText)]
                /\ Finish(i, askGeminiCatch(r.message))
                /\ UNCHANGED calls
  /\ UNCHANGED <<clientVars, env, chats, blobs, op, data, context, before>>

\* the model call failed
AskModelRejected(i) ==
  /\ pc[i] = "generateContent"
  /\ \E message \in ModelErrors : Finish(i, askGeminiCatch(message))
  /\ UNCHANGED <<clientVars, env, chats, blobs, op, data, context, local, calls, before>>

\* the document was written: the response is returned
AskSetResolved(i) ==
  /\ pc[i] = "set"
  /\ chats' = StoreSet(chats, ChatPath(local[i].uid, local[i].chatRef.s[1]),
                       ChatRecord(local[i].question, local[i].language,
                                  local[i].farmProfile, local[i].aiResponse))
  /\ Finish(i, Returned(AskResult(local[i].aiResponse, local[i].chatRef)))
  /\ UNCHANGED <<clientVars, env, blobs, op, data, context, local, calls, before>>

\* the write failed, the failure is dropped and the response returned
AskSetRejectedSilently(i) ==
  /\ pc[i] = "set"
  /\ Finish(i, Returned(AskResult(local[i].aiResponse, local[i].chatRef)))
  /\ UNCHANGED <<clientVars, env, chats, blobs, op, data, context, local, calls, before>>

\* the write failed
AskSetRejected(i) ==
  /\ pc[i] = "set"
  /\ \E message \in ProviderErrors : Finish(i, askGeminiCatch(message))
  /\ UNCHANGED <<clientVars, env, chats, blobs, op, data, context, local, calls, before>>

(***************************************************************************)
(* transcribeAudio.                                                        *)
(***************************************************************************)
AudioPaths ==
  {Undefined, Str(<<>>)} \cup
  {Str(dir \o mid \o <<"rec.webm">>) :
     dir \in {<<"audio/">>, <<"images/">>},
     mid \in {<<>>} \cup {<<u, "/">> : u \in Users}
             \cup {<<v, "/", "audio/", u, "/">> : u \in Users, v \in Users}}

TranscribeData ==
  {Null} \cup {Obj([audioPath |-> a, language |-> l]) : a \in AudioPaths, l \in Languages}

\* a recognition alternative; the confidence is in thousandths
Alternative(transcript, confidence) ==
  Obj([transcript |-> transcript, confidence |-> Num(confidence)])

Result(alternatives) == Obj([alternatives |-> Arr(alternatives)])

\* the responses speechClient.recognize may resolve with
RecognizeResponses ==
  {EmptyObj,
   Obj([results |-> Arr(<<>>)]),
   Obj([results |-> Arr(<<Result(<<Alternative(Str(<<"namaste">>), 912)>>)>>)]),
   Obj([results |-> Arr(<<Result(<<>>)>>)]),
   Obj([results |-> Arr(<<Result(<<Alternative(Str(<<>>), 0)>>)>>)]),
   Obj([results |-> Arr(<<Result(<<Alternative(Str(<<>>), 400)>>)>>)]),
   Obj([results |-> Arr(<<Result(<<Alternative(Str(<<"namaste">>), 915)>>),
                          Result(<<Alternative(Str(<<"kisan">>), 800)>>)>>)]),
   Obj([results |-> Arr(<<Result(<<Alternative(Str(<<"namaste">>), 912)>>),
                          Result(<<Alternative(Str(<<>>), 0)>>),
                          Result(<<Alternative(Str(<<"kisan">>), 805)>>)>>)])}

\* the catch block of transcribeAudio
transcribeAudioCatch(message) ==
  HttpsError("internal", <<"Failed to transcribe audio: ">> \o message)

\* "Verify user owns this audio file"
OwnsAudio(audioPath, uid) == Includes(audioPath.s, <<"audio/">> \o uid.s \o <<"/">>)

\* transcribeAudio up to its first external call
TranscribePrepared(d, c) ==
  LET uid == validateAuth(c)
      required == validateRequiredFields(d, <<"audioPath", "language">>)
      audioPath == validateAudioPath(Get(d, "audioPath"))
      language == validateLanguage(Get(d, "language"))
  IN  IF ~uid.ok THEN uid
      ELSE IF ~required.ok THEN required
      ELSE IF ~audioPath.ok THEN audioPath
      ELSE IF ~language.ok THEN language
      ELSE IF ~OwnsAudio(audioPath.v, uid.v)
      THEN Throw(<<"Unauthorized: Cannot access audio file">>)
      ELSE Ok([NoLocals EXCEPT !.uid = uid.v, !.audioPath = audioPath.v,
                               !.language = language.v])

TranscribeStart(i) ==
  /\ pc[i] = "start"
  /\ op[i] = "transcribeAudio"
  /\ LET r == TranscribePrepared(data[i], context[i])
     IN  IF r.ok
         THEN /\ local' = [local EXCEPT ![i] = r.v]
              /\ Await(i, "exists", Call("exists", r.v.audioPath))
              /\ UNCHANGED outcome
         ELSE /\ Finish(i, transcribeAudioCatch(r.message))
              /\ UNCHANGED <<local, calls>>
  /\ UNCHANGED <<clientVars, env, chats, blobs, op, data, context, before>>

\* file.exists() resolved; if the file exists, file.getSignedUrl is called
TranscribeExistsResolved(i) ==
  /\ pc[i] = "exists"
  /\ IF local[i].audioPath.s \in DOMAIN blobs
     THEN /\ Await(i, "getSignedUrl", Call("getSignedUrl", local[i].audioPath))
          /\ UNCHANGED outcome
     ELSE /\ Finish(i, transcribeAudioCatch(<<"Audio file not found">>))
          /\ UNCHANGED calls
  /\ UNCHANGED <<clientVars, env, chats, blobs, op, data, context, local, before>>

\* the signed URL was generated; speechClient.recognize is called
TranscribeUrlResolved(i) ==
  /\ pc[i] = "getSignedUrl"
  /\ local' = [local EXCEPT ![i].url = Str(<<"https://signed/">> \o local[i].audioPath.s)]
  /\ Await(i, "recognize", Call("recognize", Str(<<"gs://bucket/">> \o local[i].audioPath.s)))
  /\ UNCHANGED <<clientVars, env, chats, blobs, op, data, context, outcome, before>>

\* result.alternatives[0], undefined for an empty list
FirstAlternative(result) ==
  LET alternatives == Get(result, "alternatives")
  IN  IF IsArray(alternatives) /\ Len(alternatives.a) > 0
      THEN alternatives.a[1] ELSE Undefined

\* the transcripts of the results that have one, joined with " "
Transcription(results) ==
  LET firsts == [n \in 1..Len(results) |-> FirstAlternative(results[n])]
      kept == SelectSeq(firsts, LAMBDA a : Truthy(a) /\ Truthy(Get(a, "transcript")))
  IN  Join([n \in 1..Len(kept) |-> Get(kept[n], "transcript").s], <<" ">>)

RECURSIVE Sum(_)
Sum(numbers) == IF numbers = <<>> THEN 0 ELSE Head(numbers) + Sum(Tail(numbers))

\* the average cut to two decimals, not rounded
AvgConfidenceTruncated(results) ==
  LET scores == [n \in 1..Len(results) |->
                   LET c == Get(FirstAlternative(results[n]), "confidence")
                   IN  IF Truthy(c) THEN c.n ELSE 0]
      confidenceScores == SelectSeq(scores, LAMBDA x : x > 0)
      len == Len(confidenceScores)
  IN  IF len > 0 THEN 10 * (Sum(confidenceScores) \div (10 * len)) ELSE 0

\* Math.round(avgConfidence * 100) / 100, in thousandths
AvgConfidence(results) ==
  LET scores == [n \in 1..Len(results) |->
                   LET c == Get(FirstAlternative(results[n]), "confidence")
                   IN  IF Truthy(c) THEN c.n ELSE 0]
      confidenceScores == SelectSeq(scores, LAMBDA x : x > 0)
      len == Len(confidenceScores)
  IN  IF len > 0
      THEN 10 * ((2 * Sum(confidenceScores) + 10 * len) \div (20 * len))
      ELSE 0

\* what transcribeAudio returns for a recognition response
TranscribeResult(response) ==
  LET results == Get(response, "results")
  IN  IF ~Truthy(results) \/ Len(results.a) = 0
      THEN Obj([transcript |-> Str(<<>>), confidence |-> Num(0),
                message |-> Str(<<"No speech detected in audio">>)])
      ELSE Obj([transcript |-> Str(Trim(Transcription(results.a))),
                confidence |-> Num(AvgConfidence(results.a))])

TranscribeRecognized(i) ==
  /\ pc[i] = "recognize"
  /\ \E response \in RecognizeResponses :
       /\ local' = [local EXCEPT ![i].response = response]
       /\ Finish(i, Returned(TranscribeResult(response)))
  /\ UNCHANGED <<clientVars, env, chats, blobs, op, data, context, calls, before>>

\* file.exists, file.getSignedUrl or speechClient.recognize failed
TranscribeRejected(i) ==
  /\ pc[i] \in {"exists", "getSignedUrl", "recognize"}
  /\ op[i] = "transcribeAudio"
  /\ \E message \in ProviderErrors : Finish(i, transcribeAudioCatch(message))
  /\ UNCHANGED <<clientVars, env, chats, blobs, op, data, context, local, calls, before>>

(***************************************************************************)
(* synthesizeSpeech.                                                       *)
(***************************************************************************)
Texts ==
  {Undefined, Str(<<>>), Str(<<" ">>), Str(<<" ", "t", " ">>), Str(<<X5000>>), Str(<<X5000, "x">>),
   Num(5)}

SynthesizeData ==
  {Null} \cup {Obj([text |-> x, language |-> l]) : x \in Texts, l \in Languages}

\* the values Date.now() may return
Timestamps == 1..MaxTime

\* the responses ttsClient.synthesizeSpeech may resolve with
TtsResponses ==
  {EmptyObj, Obj([audioContent |-> Null]), Obj([audioContent |-> Str(<<>>)]),
   Obj([audioContent |-> Str(<<"mp3-bytes">>)])}

\* the catch block of synthesizeSpeech
synthesizeSpeechCatch(message) ==
  HttpsError("internal", <<"Failed to synthesize speech: ">> \o message)

voiceConfig ==
  [en |-> <<"en-IN", "en-IN-Wavenet-D">>, hi |-> <<"hi-IN", "hi-IN-Wavenet-D">>,
   ta |-> <<"ta-IN", "ta-IN-Wavenet-A">>, te |-> <<"te-IN", "te-IN-Standard-A">>]

\* voiceConfig[language] || voiceConfig.en
Voice(language) ==
  IF language.t = "string" /\ Len(language.s) = 1
     /\ language.s[1] \in DOMAIN voiceConfig
  THEN voiceConfig[language.s[1]]
  ELSE voiceConfig["en"]

\* synthesizeSpeech up to its first external call
SynthesizePrepared(d, c) ==
  LET uid == validateAuth(c)
      required == validateRequiredFields(d, <<"text", "language">>)
      text == validateTextLength(Get(d, "text"), 5000)
      language == validateLanguage(Get(d, "language"))
  IN  IF ~uid.ok THEN uid
      ELSE IF ~required.ok THEN required
      ELSE IF ~text.ok THEN text
      ELSE IF ~language.ok THEN language
      ELSE Ok([NoLocals EXCEPT !.uid = uid.v, !.text = text.v,
                               !.language = language.v])

SynthesizeStart(i) ==
  /\ pc[i] = "start"
  /\ op[i] = "synthesizeSpeech"
  /\ LET r == SynthesizePrepared(data[i], context[i])
     IN  IF r.ok
         THEN /\ local' = [local EXCEPT ![i] = r.v]
              /\ Await(i, "synthesizeSpeech",
                       Call("synthesizeSpeech",
                            Str(r.v.text.s \o Voice(r.v.language))))
              /\ UNCHANGED outcome
         ELSE /\ Finish(i, synthesizeSpeechCatch(r.message))
              /\ UNCHANGED <<local, calls>>
  /\ UNCHANGED <<clientVars, env, chats, blobs, op, data, context, before>>

\* a file name outside the caller's directory
FileNameShared(uid, timestamp) ==
  <<"audio/", "response-", ToString(timestamp), ".mp3">>

\* `audio/${uid}/response-${timestamp}.mp3`
FileName(uid, timestamp) ==
  <<"audio/">> \o uid.s \o <<"/", "response-", ToString(timestamp), ".mp3">>

\* the provider answered; file.save is called whatever the answer holds
SynthesizeTtsResolvedUnchecked(i) ==
  /\ pc[i] = "synthesizeSpeech"
  /\ \E response \in TtsResponses, timestamp \in Timestamps :
       /\ local' = [local EXCEPT ![i].response = response,
                                 ![i].fileName = Str(<<"audio/">> \o local[i].uid.s
                                                     \o <<"/", ToString(timestamp)>>)]
       /\ Await(i, "save", Call("save", Str(<<"audio/">> \o local[i].uid.s
                                               \o <<"/", ToString(timestamp)>>)))
  /\ UNCHANGED <<clientVars, env, chats, blobs, op, data, context, outcome, before>>

\* the provider answered; with audio content, file.save is called
SynthesizeTtsResolved(i) ==
  /\ pc[i] = "synthesizeSpeech"
  /\ \E response \in TtsResponses :
       IF ~Truthy(Get(response, "audioContent"))
       THEN /\ local' = [local EXCEPT ![i].response = response]
            /\ Finish(i, synthesizeSpeechCatch(<<"No audio content generated">>))
            /\ UNCHANGED calls
       ELSE \E timestamp \in Timestamps :
              /\ local' = [local EXCEPT ![i].response = response,
                                        ![i].fileName = Str(FileName(local[i].uid, timestamp))]
              /\ Await(i, "save", Call("save", Str(FileName(local[i].uid, timestamp))))
              /\ UNCHANGED outcome
  /\ UNCHANGED <<clientVars, env, chats, blobs, op, data, context, before>>

\* the blob was written; file.getSignedUrl is called
SynthesizeSaveResolved(i) ==
  /\ pc[i] = "save"
  /\ blobs' = StoreSet(blobs, local[i].fileName.s, "mp3-bytes")
  /\ Await(i, "signedUrl", Call("getSignedUrl", local[i].fileName))
  /\ UNCHANGED <<clientVars, env, chats, op, data, context, local, outcome, before>>

\* the signed URL was generated: the result is returned
SynthesizeUrlResolved(i) ==
  /\ pc[i] = "signedUrl"
  /\ Finish(i, Returned(Obj([audioUrl |-> Str(<<"https://signed/">> \o local[i].fileName.s),
                             storagePath |-> local[i].fileName])))
  /\ UNCHANGED <<clientVars, env, chats, blobs, op, data, context, local, calls, before>>

\* ttsClient.synthesizeSpeech, file.save or file.getSignedUrl failed
SynthesizeRejected(i) ==
  /\ pc[i] \in {"synthesizeSpeech", "save", "signedUrl"}
  /\ \E message \in ProviderErrors : Finish(i, synthesizeSpeechCatch(message))
  /\ UNCHANGED <<clientVars, env, chats, blobs, op, data, context, local, calls, before>>

(***************************************************************************)
(* The specification: one invocation of one of the three functions, with   *)
(* any request, against any of the stores.                                 *)
(***************************************************************************)
\* the audio files uploaded before the invocation
(***************************************************************************)
(* The client application, before anyone has signed in: the initial state  *)
(* of the two providers, no task running.  The languages are the codes of  *)
(* SUPPORTED_LANGUAGES.                                                    *)
(***************************************************************************)
SUPPORTED_LANGUAGES == <<Str(<<"en">>), Str(<<"hi">>), Str(<<"ta">>), Str(<<"te">>)>>

DEFAULT_LANGUAGE == Str(<<"en">>)

\* useState(null), useState(true), useState(null), useState(null)
AuthProviderMounted ==
  [user |-> Null, loading |-> TRUE, error |-> Null, confirmationResult |-> Null]

\* localStorage.getItem(LANGUAGE_STORAGE_KEY), kept if it is a supported code
getInitialLanguage(savedLanguage) ==
  IF Truthy(savedLanguage) /\ ArrayIncludes(SUPPORTED_LANGUAGES, savedLanguage)
  THEN savedLanguage
  ELSE DEFAULT_LANGUAGE

\* useState(getInitialLanguage()), useState(false), useState(null)
LanguageProviderMounted(savedLanguage) ==
  [language |-> getInitialLanguage(savedLanguage), isChanging |-> FALSE,
   error |-> Null]

NoneSettled ==
  [fn |-> "", arg |-> Undefined, by |-> "", outcome |-> NoOutcome, turn |-> FALSE]

ClientInit ==
  /\ authContext = AuthProviderMounted
  /\ languageContext = LanguageProviderMounted(Null)
  /\ firebase = [currentUser |-> Null, userDoc |-> Undefined, pending |-> <<>>,
                 codeSent |-> FALSE]
  /\ browser = [i18n |-> DEFAULT_LANGUAGE, preferredLanguage |-> Null]
  /\ tasks = EmptyBag
  /\ settled = NoneSettled

UploadedBlobs ==
  [p \in {<<"audio/", "u1", "/", "rec.webm">>,
          <<"audio/", "u2", "/", "audio/", "u1", "/", "rec.webm">>} |-> "webm-bytes"]

Requests ==
  ({"askGemini"} \X AskData) \cup ({"transcribeAudio"} \X TranscribeData)
  \cup ({"synthesizeSpeech"} \X SynthesizeData)

OneInvocation == {"inv"}

Init ==
  /\ env \in ApiKeys
  /\ chats \in StoredChats
  /\ blobs = UploadedBlobs
  /\ op = [i \in OneInvocation |-> ""]
  /\ data = [i \in OneInvocation |-> Undefined]
  /\ context = [i \in OneInvocation |-> Undefined]
  /\ pc = [i \in OneInvocation |-> "idle"]
  /\ local = [i \in OneInvocation |-> NoLocals]
  /\ calls = [i \in OneInvocation |-> <<>>]
  /\ outcome = [i \in OneInvocation |-> NoOutcome]
  /\ before = [i \in OneInvocation |-> [chats |-> chats, blobs |-> blobs]]
  /\ ClientInit

Next ==
  \/ \E i \in Invocations, r \in Requests, c \in Contexts : Invoke(i, r[1], r[2], c)
  \/ \E i \in Invocations : AskStart(i)
  \/ \E i \in Invocations : AskModelResolved(i)
  \/ \E i \in Invocations : AskModelRejected(i)
  \/ \E i \in Invocations : AskSetResolved(i)
  \/ \E i \in Invocations : AskSetRejected(i)
  \/ \E i \in Invocations : TranscribeStart(i)
  \/ \E i \in Invocations : TranscribeExistsResolved(i)
  \/ \E i \in Invocations : TranscribeUrlResolved(i)
  \/ \E i \in Invocations : TranscribeRecognized(i)
  \/ \E i \in Invocations : TranscribeRejected(i)
  \/ \E i \in Invocations : SynthesizeStart(i)
  \/ \E i \in Invocations : SynthesizeTtsResolved(i)
  \/ \E i \in Invocations : SynthesizeSaveResolved(i)
  \/ \E i \in Invocations : SynthesizeUrlResolved(i)
  \/ \E i \in Invocations : SynthesizeRejected(i)

Spec == Init /\ [][Next]_vars

(***************************************************************************)
(* The concurrent specification: two invocations at once, by either user,  *)
(* with requests that pass validation, and the credential configured.      *)
(***************************************************************************)
TwoInvocations == {"a", "b"}

ConcurrentRequests ==
  {<<"askGemini", Obj([question |-> Str(<<" ", "q", " ">>), farmProfile |-> FullProfile,
                       language |-> Str(<<"en">>)])>>,
   <<"transcribeAudio", Obj([audioPath |-> Str(<<"audio/", "u1", "/", "rec.webm">>),
                             language |-> Str(<<"hi">>)])>>,
   <<"synthesizeSpeech", Obj([text |-> Str(<<" ", "t", " ">>),
                              language |-> Str(<<"en">>)])>>}

InitConcurrent ==
  /\ env = Str(<<"AIza-configured">>)
  /\ chats \in StoredChats
  /\ blobs = UploadedBlobs
  /\ op = [i \in TwoInvocations |-> ""]
  /\ data = [i \in TwoInvocations |-> Undefined]
  /\ context = [i \in TwoInvocations |-> Undefined]
  /\ pc = [i \in TwoInvocations |-> "idle"]
  /\ local = [i \in TwoInvocations |-> NoLocals]
  /\ calls = [i \in TwoInvocations |-> <<>>]
  /\ outcome = [i \in TwoInvocations |-> NoOutcome]
  /\ before = [i \in TwoInvocations |-> [chats |-> chats, blobs |-> blobs]]
  /\ ClientInit

NextConcurrent ==
  \/ \E i \in Invocations, r \in ConcurrentRequests, u \in Users :
       Invoke(i, r[1], r[2], AuthContext(u))
  \/ \E i \in Invocations : AskStart(i)
  \/ \E i \in Invocations : AskModelResolved(i)
  \/ \E i \in Invocations : AskModelRejected(i)
  \/ \E i \in Invocations : AskSetResolved(i)
  \/ \E i \in Invocations : AskSetRejected(i)
  \/ \E i \in Invocations : TranscribeStart(i)
  \/ \E i \in Invocations : TranscribeExistsResolved(i)
  \/ \E i \in Invocations : TranscribeUrlResolved(i)
  \/ \E i \in Invocations : TranscribeRecognized(i)
  \/ \E i \in Invocations : TranscribeRejected(i)
  \/ \E i \in Invocations : SynthesizeStart(i)
  \/ \E i \in Invocations : SynthesizeTtsResolved(i)
  \/ \E i \in Invocations : SynthesizeSaveResolved(i)
  \/ \E i \in Invocations : SynthesizeUrlResolved(i)
  \/ \E i \in Invocations : SynthesizeRejected(i)

SpecConcurrent == InitConcurrent /\ [][NextConcurrent]_vars

(***************************************************************************)
(* The functions specification: beside the three handlers, the validators  *)
(* and the prompt builder are called directly, as a unit test calls them,  *)
(* with arguments of every kind.  A call takes an invocation slot: op is   *)
(* the function, data the list of its arguments, outcome what it returned  *)
(* or threw.                                                               *)
(***************************************************************************)
\* throw new Error(message), reaching the caller as it is
Thrown(message) ==
  [kind |-> "error", code |-> "Error", message |-> message, value |-> Undefined]

Settled(r) == IF r.ok THEN Returned(r.v) ELSE Thrown(r.message)

CallFunction(i, name, args, result) ==
  /\ pc[i] = "idle"
  /\ op' = [op EXCEPT ![i] = name]
  /\ data' = [data EXCEPT ![i] = Arr(args)]
  /\ pc' = [pc EXCEPT ![i] = "done"]
  /\ outcome' = [outcome EXCEPT ![i] = Settled(result)]
  /\ UNCHANGED <<clientVars, env, chats, blobs, context, local, calls, before>>

TextInputs ==
  {Undefined, Null, Num(5), EmptyObj, Str(<<>>), Str(<<" ">>), Str(<<"a">>),
   Str(<<" ", "a", " ", "b", " ", " ">>), Str(<<X1000>>), Str(<<X1000, "x">>),
   Str(<<" ", X1000>>), Str(<<X1000, X1000>>), Str(<<X5000>>), Str(<<X5000, " ">>)}

MaxLengths == {1000, 5000}

CallValidateTextLength(i) ==
  \E text \in TextInputs, maxLength \in MaxLengths :
    CallFunction(i, "validateTextLength", <<text, Num(maxLength)>>,
                 validateTextLength(text, maxLength))

LanguageInputs ==
  {Undefined, Null, Num(1), Arr(<<Str(<<"en">>)>>), Str(<<>>), Str(<<"en">>),
   Str(<<"hi">>), Str(<<"ta">>), Str(<<"te">>), Str(<<"EN">>), Str(<<"Hi">>),
   Str(<<"english">>), Str(<<" ", "en">>)}

CallValidateLanguage(i) ==
  \E language \in LanguageInputs :
    CallFunction(i, "validateLanguage", <<language>>, validateLanguage(language))

FieldNames == {"question", "farmProfile", "language"}

FieldValues == {Undefined, Null, Str(<<>>), Str(<<"x">>), Num(0)}

\* the objects that have some of the fields, with values of every kind
DataInputs ==
  {Obj(f) : f \in UNION {[present -> FieldValues] : present \in SUBSET FieldNames}}

RequiredLists ==
  {<<>>, <<"question">>, <<"question", "farmProfile", "language">>,
   <<"language", "question">>, <<"text", "language">>}

CallValidateRequiredFields(i) ==
  \E d \in DataInputs, requiredFields \in RequiredLists :
    CallFunction(i, "validateRequiredFields",
                 <<d, Arr([n \in 1..Len(requiredFields) |-> Str(<<requiredFields[n]>>)])>>,
                 validateRequiredFields(d, requiredFields))

\* a field that the object does not have
Absent == [t |-> "absent"]

\* the object with the fields of the record that are not Absent
ObjectOf(fields) ==
  Obj([k \in {x \in DOMAIN fields : fields[x] # Absent} |-> fields[k]])

LocationInputs ==
  {Absent} \cup
  {ObjectOf([village |-> v, district |-> d, state |-> s]) :
     v \in {Absent, Str(<<"Rampur">>)}, d \in {Absent, Str(<<"Sitapur">>)},
     s \in {Absent, Str(<<"Uttar Pradesh">>)}}

AreaInputs ==
  {Absent} \cup
  {ObjectOf([value |-> v, unit |-> u]) :
     v \in {Absent, Num(2)}, u \in {Absent, Str(<<"acres">>)}}

\* the farm profiles with any of the fields
ProfileInputs ==
  {ObjectOf([crops |-> c, location |-> l, soilType |-> s, irrigationType |-> g,
             area |-> a, season |-> n]) :
     c \in {Absent, Arr(<<>>), Arr(<<Str(<<"wheat">>), Str(<<"rice">>)>>)},
     l \in LocationInputs, s \in {Absent, Str(<<"loam">>)},
     g \in {Absent, Str(<<"drip">>)}, a \in AreaInputs,
     n \in {Absent, Str(<<"kharif">>)}}

CallBuildAgriculturalPrompt(i) ==
  \E farmProfile \in ProfileInputs :
    CallFunction(i, "buildAgriculturalPrompt",
                 <<farmProfile, Str(<<"hi">>), Str(<<"q">>)>>,
                 buildAgriculturalPrompt(farmProfile, Str(<<"hi">>), Str(<<"q">>)))

NextFunctions ==
  \/ \E i \in Invocations : CallValidateTextLength(i)
  \/ \E i \in Invocations : CallValidateLanguage(i)
  \/ \E i \in Invocations : CallValidateRequiredFields(i)
  \/ \E i \in Invocations : CallBuildAgriculturalPrompt(i)
  \/ \E i \in Invocations, r \in Requests, c \in Contexts : Invoke(i, r[1], r[2], c)
  \/ \E i \in Invocations : AskStart(i)
  \/ \E i \in Invocations : AskModelResolved(i)
  \/ \E i \in Invocations : AskModelRejected(i)
  \/ \E i \in Invocations : AskSetResolved(i)
  \/ \E i \in Invocations : AskSetRejected(i)
  \/ \E i \in Invocations : TranscribeStart(i)
  \/ \E i \in Invocations : TranscribeExistsResolved(i)
  \/ \E i \in Invocations : TranscribeUrlResolved(i)
  \/ \E i \in Invocations : TranscribeRecognized(i)
  \/ \E i \in Invocations : TranscribeRejected(i)
  \/ \E i \in Invocations : SynthesizeStart(i)
  \/ \E i \in Invocations : SynthesizeTtsResolved(i)
  \/ \E i \in Invocations : SynthesizeSaveResolved(i)
  \/ \E i \in Invocations : SynthesizeUrlResolved(i)
  \/ \E i \in Invocations : SynthesizeRejected(i)

SpecFunctions == Init /\ [][NextFunctions]_vars

(***************************************************************************)
(* The client's async functions.  A call is a task: the function, its      *)
(* argument, what its closure captured when it was called, the await it is *)
(* suspended at.  A step runs a task from one await to the next; React     *)
(* renders between the steps, so that the state a step leaves is the one   *)
(* of its last setState calls.  A task that settles leaves the bag, and    *)
(* settled holds what the call that settled last resolved to or rejected   *)
(* with.                                                                   *)
(***************************************************************************)
Task(fn, arg, closure, at) ==
  [fn |-> fn, arg |-> arg, closure |-> closure, pc |-> at, by |-> "application"]

\* the bag of one task
One(t) == SetToBag({t})

Suspended(t, fn, at) == t.fn = fn /\ t.pc = at

\* the same, called by a listener that Firebase notifies
ListenerTask(fn, arg, closure, at) == [Task(fn, arg, closure, at) EXCEPT !.by = "listener"]

\* the function is called and runs to its first await
Begin(fn, arg, closure, at) == tasks (+) One(Task(fn, arg, closure, at))

Resumed(t, at) == (tasks (-) One(t)) (+) One([t EXCEPT !.pc = at])

\* the tasks but the one that settles
Without(t) == tasks (-) One(t)

\* the call that settles, and how: turn tells two equal calls apart
LastSettled(fn, arg, by, result) ==
  [fn |-> fn, arg |-> arg, by |-> by, outcome |-> result, turn |-> ~settled.turn]

\* the task settles
Settle(t, result) ==
  /\ tasks' = Without(t)
  /\ settled' = LastSettled(t.fn, t.arg, t.by, result)

\* the function is called by the application and settles before any await
SettleAtOnce(fn, arg, result) ==
  /\ UNCHANGED tasks
  /\ settled' = LastSettled(fn, arg, "application", result)

\* the number of calls of the application that run at a time
MaxRunning == 2

RunningBy(by) == {t \in BagToSet(tasks) : t.by = by}

\* the number of tasks of the kind, equal ones counted each
NumberOf(kind) ==
  BagCardinality([t \in kind |-> CopiesIn(t, tasks)])

MayCall == NumberOf(RunningBy("application")) < MaxRunning

\* a listener is notified of a change when it is done with the last one
MayNotify == RunningBy("listener") = {}

\* an error of the Firebase SDK
FirebaseError(code, message) == [code |-> code, message |-> message]

(***************************************************************************)
(* AuthContext.jsx: AuthProvider.                                          *)
(***************************************************************************)
PhoneNumbers == {Str(<<"+", "919876543210">>), Str(<<"9876543210">>)}

\* the user that owns the phone
FirebaseUser == Obj([uid |-> Str(<<"u1">>)])

Confirmation == Obj([verificationId |-> Str(<<"v1">>)])

SignInErrors ==
  {FirebaseError("auth/too-many-requests", <<"Firebase: Error (auth/too-many-requests).">>),
   FirebaseError("", <<>>)}

\* the catch block of login
loginErrorMessage(err) ==
  CASE err.code = "auth/invalid-phone-number" ->
         <<"Invalid phone number format. Please check and try again.">>
    [] err.code = "auth/too-many-requests" -> <<"Too many requests. Please try again later.">>
    [] err.code = "auth/quota-exceeded" -> <<"SMS quota exceeded. Please try again later.">>
    [] OTHER -> IF err.message # <<>> THEN err.message
                ELSE <<"Failed to send OTP. Please try again.">>

\* login(phoneNumber), to the await of signInWithPhoneNumber
login ==
  \E phoneNumber \in PhoneNumbers :
    /\ MayCall
    /\ IF ~Truthy(phoneNumber) \/ ~StartsWith(phoneNumber.s, <<"+">>)
       THEN LET message == loginErrorMessage(FirebaseError("",
                             <<"Please provide a valid phone number with country code (e.g., +91...)">>))
            IN  /\ authContext' = [authContext EXCEPT !.loading = FALSE,
                                                      !.error = Str(message)]
                /\ SettleAtOnce("login", phoneNumber, Thrown(message))
       ELSE /\ authContext' = [authContext EXCEPT !.loading = TRUE, !.error = Null]
            /\ UNCHANGED settled
            /\ tasks' = Begin("login", phoneNumber, Null, "signInWithPhoneNumber")
    /\ UNCHANGED <<serverVars, languageContext, firebase, browser>>

\* signInWithPhoneNumber resolves: setConfirmationResult(confirmation)
loginResolved ==
  \E t \in BagToSet(tasks) :
    /\ Suspended(t, "login", "signInWithPhoneNumber")
    /\ authContext' = [authContext EXCEPT !.confirmationResult = Confirmation,
                                          !.loading = FALSE]
    /\ firebase' = [firebase EXCEPT !.codeSent = TRUE]
    /\ Settle(t, Returned(Confirmation))
    /\ UNCHANGED <<serverVars, languageContext, browser>>

loginRejected ==
  \E t \in BagToSet(tasks), err \in SignInErrors :
    /\ Suspended(t, "login", "signInWithPhoneNumber")
    /\ authContext' = [authContext EXCEPT !.error = Str(loginErrorMessage(err)),
                                          !.loading = FALSE]
    /\ Settle(t, Thrown(loginErrorMessage(err)))
    /\ UNCHANGED <<serverVars, languageContext, firebase, browser>>

Otps == {Str(<<"1", "2", "3", "4", "5", "6">>), Str(<<"1", "2", "3">>), Num(123456)}

ConfirmErrors ==
  {FirebaseError("auth/invalid-verification-code", <<"Firebase: Error (auth/invalid-verification-code).">>)}

\* the catch block of verifyOTP
verifyOTPErrorMessage(err) ==
  CASE err.code = "auth/invalid-verification-code" ->
         <<"Invalid OTP code. Please check and try again.">>
    [] err.code = "auth/code-expired" ->
         <<"OTP code has expired. Please request a new one.">>
    [] OTHER -> IF err.message # <<>> THEN err.message
                ELSE <<"Failed to verify OTP. Please try again.">>

\* otp.length !== 6; the length of a value that is not a string is undefined
NotSixLong(otp) == ~(otp.t = "string" /\ StrLength(otp.s) = 6)

\* what verifyOTP throws before it contacts the provider, if it does
verifyOTPRefusal(confirmationResult, otp) ==
  IF ~Truthy(confirmationResult)
  THEN Throw(<<"No confirmation result found. Please request OTP first.">>)
  ELSE IF ~Truthy(otp) \/ NotSixLong(otp)
  THEN Throw(<<"Please enter a valid 6-digit OTP code.">>)
  ELSE Ok(Undefined)

\* verifyOTP(otp), to the await of confirmationResult.confirm
verifyOTP ==
  \E otp \in Otps :
    LET refusal == verifyOTPRefusal(authContext.confirmationResult, otp)
    IN  /\ MayCall
        /\ IF ~refusal.ok
           THEN LET message == verifyOTPErrorMessage(FirebaseError("", refusal.message))
                IN  /\ authContext' = [authContext EXCEPT !.loading = FALSE,
                                                          !.error = Str(message)]
                    /\ SettleAtOnce("verifyOTP", otp, Thrown(message))
                    /\ UNCHANGED firebase
           ELSE /\ authContext' = [authContext EXCEPT !.loading = TRUE, !.error = Null]
                /\ UNCHANGED settled
            /\ tasks' = Begin("verifyOTP", otp, authContext.confirmationResult, "confirm")
                /\ UNCHANGED firebase
        /\ UNCHANGED <<serverVars, languageContext, browser>>

\* { ...a, ...b }
Merge(a, b) ==
  IF b.t # "object" THEN a
  ELSE IF a.t # "object" THEN b
  ELSE Obj([k \in DOMAIN a.f \cup DOMAIN b.f |->
              IF k \in DOMAIN b.f THEN b.f[k] ELSE a.f[k]])

\* the userData of syncUserWithFirestore
UserData(firebaseUser) ==
  Obj([uid |-> Get(firebaseUser, "uid"),
       displayName |-> OrElse(Get(firebaseUser, "displayName"), Str(<<>>))])

\* syncUserWithFirestore(firebaseUser): the user it returns and the user
\* document it leaves, when Firestore answers and when it fails
syncUserWithFirestore(firebaseUser, userDoc, firestoreAnswers) ==
  IF ~firestoreAnswers
  THEN [user |-> UserData(firebaseUser), userDoc |-> userDoc]
  ELSE IF userDoc = Undefined
  THEN [user |-> Merge(UserData(firebaseUser), Obj([language |-> Str(<<"en">>)])),
        userDoc |-> Merge(UserData(firebaseUser), Obj([language |-> Str(<<"en">>)]))]
  ELSE [user |-> Merge(UserData(firebaseUser), userDoc), userDoc |-> userDoc]

\* the listener of AuthProvider is notified of the user, or of null
AuthStateChangedTo(firebaseUser) ==
  ListenerTask("onAuthStateChanged", firebaseUser, Null,
               IF Truthy(firebaseUser) THEN "syncUserWithFirestore" ELSE "notified")

\* confirmationResult.confirm(otp) resolves: the user is signed in
verifyOTPConfirmed ==
  \E t \in BagToSet(tasks) :
    /\ Suspended(t, "verifyOTP", "confirm")
    /\ firebase.currentUser # FirebaseUser => MayNotify
    /\ firebase' = [firebase EXCEPT !.currentUser = FirebaseUser]
    /\ tasks' = IF firebase.currentUser = FirebaseUser
                THEN Resumed(t, "syncUserWithFirestore")
                ELSE Resumed(t, "syncUserWithFirestore")
                     (+) One(AuthStateChangedTo(FirebaseUser))
    /\ UNCHANGED <<serverVars, authContext, languageContext, browser, settled>>

verifyOTPRejected ==
  \E t \in BagToSet(tasks), err \in ConfirmErrors :
    /\ Suspended(t, "verifyOTP", "confirm")
    /\ authContext' = [authContext EXCEPT !.error = Str(verifyOTPErrorMessage(err)),
                                          !.loading = FALSE]
    /\ Settle(t, Thrown(verifyOTPErrorMessage(err)))
    /\ UNCHANGED <<serverVars, languageContext, firebase, browser>>

\* syncUserWithFirestore returns to verifyOTP or to the listener: setUser(userData)
userSynced ==
  \E t \in BagToSet(tasks), firestoreAnswers \in BOOLEAN :
    LET synced == syncUserWithFirestore(
                    IF t.fn = "verifyOTP" THEN FirebaseUser ELSE t.arg,
                    firebase.userDoc, firestoreAnswers)
    IN  /\ \/ Suspended(t, "verifyOTP", "syncUserWithFirestore")
           \/ Suspended(t, "onAuthStateChanged", "syncUserWithFirestore")
        /\ authContext' = [authContext EXCEPT !.user = synced.user, !.loading = FALSE]
        /\ firebase' = [firebase EXCEPT !.userDoc = synced.userDoc]
        /\ Settle(t, Returned(synced.user))
        /\ UNCHANGED <<serverVars, languageContext, browser>>

\* the listener is notified that nobody is signed in: setUser(null)
signedOutNotified ==
  \E t \in BagToSet(tasks) :
    /\ Suspended(t, "onAuthStateChanged", "notified")
    /\ authContext' = [authContext EXCEPT !.user = Null, !.loading = FALSE]
    /\ Settle(t, Returned(Undefined))
    /\ UNCHANGED <<serverVars, languageContext, firebase, browser>>

\* logout(), to the await of signOut
logout ==
  /\ MayCall
  /\ authContext' = [authContext EXCEPT !.loading = TRUE, !.error = Null]
  /\ UNCHANGED settled
            /\ tasks' = Begin("logout", Undefined, Null, "signOut")
  /\ UNCHANGED <<serverVars, languageContext, firebase, browser>>

\* logout that leaves the confirmation of the last login in place
logoutResolvedKeepingConfirmation ==
  \E t \in BagToSet(tasks) :
    /\ Suspended(t, "logout", "signOut")
    /\ authContext' = [authContext EXCEPT !.user = Null, !.loading = FALSE]
    /\ firebase.currentUser # Null => MayNotify
    /\ firebase' = [firebase EXCEPT !.currentUser = Null, !.codeSent = FALSE]
    /\ tasks' = IF firebase.currentUser = Null THEN Without(t)
                ELSE Without(t) (+) One(AuthStateChangedTo(Null))
    /\ settled' = LastSettled("logout", Undefined, "application", Returned(Undefined))
    /\ UNCHANGED <<serverVars, languageContext, browser>>

logoutResolved ==
  \E t \in BagToSet(tasks) :
    /\ Suspended(t, "logout", "signOut")
    /\ authContext' = [authContext EXCEPT !.user = Null, !.confirmationResult = Null,
                                          !.loading = FALSE]
    /\ firebase.currentUser # Null => MayNotify
    /\ firebase' = [firebase EXCEPT !.currentUser = Null, !.codeSent = FALSE]
    /\ tasks' = IF firebase.currentUser = Null THEN Without(t)
                ELSE Without(t) (+) One(AuthStateChangedTo(Null))
    /\ settled' = LastSettled("logout", Undefined, "application", Returned(Undefined))
    /\ UNCHANGED <<serverVars, languageContext, browser>>

SignOutErrors ==
  {FirebaseError("auth/network-request-failed", <<"Firebase: Error (auth/network-request-failed).">>)}

logoutRejected ==
  \E t \in BagToSet(tasks), err \in SignOutErrors :
    /\ Suspended(t, "logout", "signOut")
    /\ authContext' = [authContext EXCEPT !.error = Str(<<"Failed to logout. Please try again.">>),
                                          !.loading = FALSE]
    /\ Settle(t, Thrown(err.message))
    /\ UNCHANGED <<serverVars, languageContext, firebase, browser>>

ProfileUpdates == {Obj([displayName |-> Str(<<"Asha">>)])}

UpdateErrors == {FirebaseError("not-found", <<"No document to update">>)}

\* the catch block of updateProfile
updateProfileErrorMessage(err) ==
  CASE err.code = "permission-denied" ->
         <<"Permission denied. Please check your account permissions.">>
    [] OTHER -> IF err.message # <<>> THEN err.message
                ELSE <<"Failed to update profile. Please try again.">>

\* updateProfile(updates), to its first await
updateProfile ==
  \E updates \in ProfileUpdates :
    /\ MayCall
    /\ IF ~Truthy(firebase.currentUser)
       THEN LET message == updateProfileErrorMessage(
                             FirebaseError("", <<"No authenticated user found.">>))
            IN  /\ authContext' = [authContext EXCEPT !.loading = FALSE,
                                                      !.error = Str(message)]
                /\ SettleAtOnce("updateProfile", updates, Thrown(message))
       ELSE /\ authContext' = [authContext EXCEPT !.loading = TRUE, !.error = Null]
            /\ UNCHANGED settled
            /\ tasks' = Begin("updateProfile", updates, authContext.user,
                              IF Get(updates, "displayName") # Undefined
                                 \/ Get(updates, "photoURL") # Undefined
                              THEN "updateFirebaseProfile" ELSE "updateDoc")
    /\ UNCHANGED <<serverVars, languageContext, firebase, browser>>

\* updateFirebaseProfile resolves; auth.currentUser.uid is read again
updateProfileAuthUpdated ==
  \E t \in BagToSet(tasks) :
    /\ Suspended(t, "updateProfile", "updateFirebaseProfile")
    /\ IF ~Truthy(firebase.currentUser)
       THEN LET message == updateProfileErrorMessage(
                             FirebaseError("", <<"Cannot read properties of null (reading 'uid')">>))
            IN  /\ authContext' = [authContext EXCEPT !.loading = FALSE,
                                                      !.error = Str(message)]
                /\ Settle(t, Thrown(message))
       ELSE /\ tasks' = Resumed(t, "updateDoc")
            /\ UNCHANGED <<authContext, settled>>
    /\ UNCHANGED <<serverVars, languageContext, firebase, browser>>

\* updateDoc resolves: setUser({ ...user, ...updates })
updateProfileResolved ==
  \E t \in BagToSet(tasks) :
    /\ Suspended(t, "updateProfile", "updateDoc")
    /\ firebase.userDoc # Undefined
    /\ authContext' = [authContext EXCEPT !.user = Merge(t.closure, t.arg),
                                          !.loading = FALSE]
    /\ firebase' = [firebase EXCEPT !.userDoc = Merge(@, t.arg)]
    /\ Settle(t, Returned(Merge(t.closure, t.arg)))
    /\ UNCHANGED <<serverVars, languageContext, browser>>

updateProfileRejected ==
  \E t \in BagToSet(tasks), err \in UpdateErrors :
    /\ \/ Suspended(t, "updateProfile", "updateFirebaseProfile")
       \/ Suspended(t, "updateProfile", "updateDoc")
    /\ authContext' = [authContext EXCEPT !.error = Str(updateProfileErrorMessage(err)),
                                          !.loading = FALSE]
    /\ Settle(t, Thrown(updateProfileErrorMessage(err)))
    /\ UNCHANGED <<serverVars, languageContext, firebase, browser>>

clearError ==
  /\ authContext.error # Null
  /\ authContext' = [authContext EXCEPT !.error = Null]
  /\ UNCHANGED <<serverVars, languageContext, firebase, browser, tasks, settled>>

\* the functions are idle while the client is looked at
ServerIdle ==
  /\ env = Str(<<"AIza-configured">>)
  /\ chats = <<>>
  /\ blobs = UploadedBlobs
  /\ op = [i \in OneInvocation |-> ""]
  /\ data = [i \in OneInvocation |-> Undefined]
  /\ context = [i \in OneInvocation |-> Undefined]
  /\ pc = [i \in OneInvocation |-> "idle"]
  /\ local = [i \in OneInvocation |-> NoLocals]
  /\ calls = [i \in OneInvocation |-> <<>>]
  /\ outcome = [i \in OneInvocation |-> NoOutcome]
  /\ before = [i \in OneInvocation |-> [chats |-> chats, blobs |-> blobs]]

\* the user documents there may be
UserDocs ==
  {Undefined,
   Obj([uid |-> Str(<<"u1">>), displayName |-> Str(<<>>), language |-> Str(<<"hi">>)])}

\* AuthProvider mounts, with the user of an earlier session or without:
\* onAuthStateChanged notifies the new listener
InitAuth ==
  /\ ServerIdle
  /\ authContext = AuthProviderMounted
  /\ languageContext = LanguageProviderMounted(Null)
  /\ browser = [i18n |-> DEFAULT_LANGUAGE, preferredLanguage |-> Null]
  /\ \E currentUser \in {Null, FirebaseUser}, userDoc \in UserDocs :
       /\ firebase = [currentUser |-> currentUser, userDoc |-> userDoc,
                      pending |-> <<>>, codeSent |-> FALSE]
       /\ tasks = One(AuthStateChangedTo(currentUser))
  /\ settled = NoneSettled

NextAuth ==
  \/ login
  \/ loginResolved
  \/ loginRejected
  \/ verifyOTP
  \/ verifyOTPConfirmed
  \/ verifyOTPRejected
  \/ userSynced
  \/ signedOutNotified
  \/ logout
  \/ logoutResolved
  \/ logoutRejected
  \/ updateProfile
  \/ updateProfileAuthUpdated
  \/ updateProfileResolved
  \/ updateProfileRejected
  \/ clearError

SpecAuth == InitAuth /\ [][NextAuth]_vars

(***************************************************************************)
(* LanguageContext.jsx: LanguageProvider.  i18n.changeLanguage(lng) is     *)
(* taken by its contract: when its promise resolves, lng is the active     *)
(* language; when it rejects, the active language is as before.  Firestore *)
(* reads see the writes that are still pending, as the SDK shows them.     *)
(***************************************************************************)
NewLanguages == {Str(<<"hi">>), Str(<<"TA">>), Str(<<"fr">>), Undefined}

\* the chunks that have capital letters, in lower case
LowerCase == [TA |-> "ta", HI |-> "hi", EN |-> "en", TE |-> "te", FR |-> "fr"]

\* s.toLowerCase()
toLowerCase(s) ==
  Str([n \in DOMAIN s.s |-> IF s.s[n] \in DOMAIN LowerCase THEN LowerCase[s.s[n]]
                            ELSE s.s[n]])

\* what changeLanguage does before i18n.changeLanguage: it throws, returns
\* at once, or goes on with lang
changeLanguageChecked(newLanguage, language) ==
  IF ~Truthy(newLanguage) \/ TypeOf(newLanguage) # "string"
  THEN Throw(<<"Invalid language code provided.">>)
  ELSE IF ~ArrayIncludes(SUPPORTED_LANGUAGES, toLowerCase(newLanguage))
  THEN Throw(<<"Language \"">> \o toLowerCase(newLanguage).s
             \o <<"\" is not supported. Supported languages: ">>
             \o Join([n \in 1..Len(SUPPORTED_LANGUAGES) |-> SUPPORTED_LANGUAGES[n].s],
                     <<", ">>))
  ELSE Ok(IF toLowerCase(newLanguage) = language THEN Undefined
          ELSE toLowerCase(newLanguage))

\* the catch block of changeLanguage
changeLanguageErrorMessage(err) ==
  IF err.message # <<>> THEN err.message
  ELSE <<"Failed to change language. Please try again.">>

\* the calls of the application, the listeners and the writes of the language
\* that are under way at a time
MaxChanging == 1

MayChange == NumberOf(RunningBy("application")) < MaxChanging

MaySubscribe == NumberOf(RunningBy("listener")) < MaxChanging

MayWrite == Len(firebase.pending) < MaxChanging

\* changeLanguage(newLanguage) called by the application, to the await of
\* i18n.changeLanguage
changeLanguage ==
  \E newLanguage \in NewLanguages :
    LET checked == changeLanguageChecked(newLanguage, languageContext.language)
    IN  /\ MayChange
        /\ IF ~checked.ok
           THEN LET message == changeLanguageErrorMessage(FirebaseError("", checked.message))
                IN  /\ languageContext' = [languageContext EXCEPT !.isChanging = FALSE,
                                                                  !.error = Str(message)]
                    /\ SettleAtOnce("changeLanguage", newLanguage, Thrown(message))
           ELSE IF checked.v = Undefined
           THEN /\ languageContext' = [languageContext EXCEPT !.isChanging = FALSE,
                                                              !.error = Null]
                /\ SettleAtOnce("changeLanguage", newLanguage, Returned(Undefined))
           ELSE /\ languageContext' = [languageContext EXCEPT !.isChanging = TRUE,
                                                              !.error = Null]
                /\ UNCHANGED settled
                /\ tasks' = Begin("changeLanguage", newLanguage, languageContext.language,
                                  "i18n.changeLanguage")
        /\ UNCHANGED <<serverVars, authContext, firebase, browser>>

\* the effect that subscribes to auth.onAuthStateChanged: Firebase notifies
\* the new listener of the user who is signed in
Subscribed(language) ==
  IF Truthy(firebase.currentUser)
  THEN One(ListenerTask("auth.onAuthStateChanged", firebase.currentUser, language, "getDoc"))
  ELSE EmptyBag


\* saveToLocalStorage(lang): the storage after it, when setItem works and
\* when it throws
\* saveToLocalStorage that reports success without writing
saveToLocalStorageNothing(lang, works) == browser

saveToLocalStorage(lang, works) ==
  IF works THEN [browser EXCEPT !.preferredLanguage = lang] ELSE browser

\* saveToFirestore(lang), to the await of updateDoc
saveToFirestore(lang) ==
  IF Truthy(firebase.currentUser)
  THEN [firebase EXCEPT !.pending = Append(@, lang)]
  ELSE firebase

\* i18n.changeLanguage(lang) resolves: save to localStorage, start the write
\* to Firestore, setLanguage(lang)
changeLanguageResolved ==
  \E t \in BagToSet(tasks), works \in BOOLEAN :
    LET lang == toLowerCase(t.arg)
        renders == lang # languageContext.language
    IN  /\ Suspended(t, "changeLanguage", "i18n.changeLanguage")
        /\ browser' = [saveToLocalStorage(lang, works) EXCEPT !.i18n = lang]
        /\ IF ~works
           THEN LET message == changeLanguageErrorMessage(FirebaseError("",
                      <<"Failed to save language preference. Please check your browser settings.">>))
                IN  /\ languageContext' = [languageContext EXCEPT !.isChanging = FALSE,
                                                                  !.error = Str(message)]
                    /\ Settle(t, Thrown(message))
                    /\ UNCHANGED firebase
           ELSE /\ Truthy(firebase.currentUser) => MayWrite
                /\ renders /\ Truthy(firebase.currentUser) => MaySubscribe \/ t.by = "listener"
                /\ firebase' = saveToFirestore(lang)
                /\ languageContext' = [languageContext EXCEPT !.language = lang,
                                                              !.isChanging = FALSE]
                /\ tasks' = Without(t) (+) (IF renders THEN Subscribed(lang) ELSE EmptyBag)
                /\ settled' = LastSettled(t.fn, t.arg, t.by, Returned(Undefined))
        /\ UNCHANGED <<serverVars, authContext>>

I18nErrors == {FirebaseError("", <<>>)}

changeLanguageRejected ==
  \E t \in BagToSet(tasks), err \in I18nErrors :
    /\ Suspended(t, "changeLanguage", "i18n.changeLanguage")
    /\ languageContext' = [languageContext EXCEPT
                             !.isChanging = FALSE,
                             !.error = Str(changeLanguageErrorMessage(err))]
    /\ Settle(t, Thrown(changeLanguageErrorMessage(err)))
    /\ UNCHANGED <<serverVars, authContext, firebase, browser>>

\* userSnap of getDoc(userRef): the document with the pending writes applied
UserSnap ==
  IF firebase.userDoc = Undefined \/ firebase.pending = <<>> THEN firebase.userDoc
  ELSE Merge(firebase.userDoc,
             Obj([language |-> firebase.pending[Len(firebase.pending)]]))

\* getDoc resolves in the listener: a language of the user document that
\* differs from the language of the listener's render is changed to
languageSynced ==
  \E t \in BagToSet(tasks) :
    LET userLanguage == Get(UserSnap, "language")
    IN  /\ Suspended(t, "auth.onAuthStateChanged", "getDoc")
        /\ IF /\ UserSnap # Undefined
              /\ Truthy(userLanguage)
              /\ ArrayIncludes(SUPPORTED_LANGUAGES, userLanguage)
              /\ userLanguage # t.closure
           THEN /\ tasks' = Without(t)
                            (+) One([t EXCEPT !.fn = "changeLanguage", !.arg = userLanguage,
                                              !.pc = "i18n.changeLanguage"])
                /\ languageContext' = [languageContext EXCEPT !.isChanging = TRUE,
                                                              !.error = Null]
           ELSE /\ tasks' = Without(t)
                /\ UNCHANGED languageContext
        /\ UNCHANGED <<serverVars, authContext, firebase, browser, settled>>

\* getDoc rejects in the listener: the language stays
languageSyncFailed ==
  \E t \in BagToSet(tasks) :
    /\ Suspended(t, "auth.onAuthStateChanged", "getDoc")
    /\ tasks' = Without(t)
    /\ UNCHANGED <<serverVars, authContext, languageContext, firebase, browser, settled>>

\* updateDoc of saveToFirestore resolves
languageWritten ==
  /\ firebase.pending # <<>>
  /\ firebase.userDoc # Undefined
  /\ firebase' = [firebase EXCEPT !.userDoc = Merge(@, Obj([language |-> Head(firebase.pending)])),
                                  !.pending = Tail(@)]
  /\ UNCHANGED <<serverVars, authContext, languageContext, browser, tasks, settled>>

\* updateDoc of saveToFirestore rejects (permission-denied, not-found):
\* saveToFirestore returns false
languageWriteFailed ==
  /\ firebase.pending # <<>>
  /\ firebase' = [firebase EXCEPT !.pending = Tail(@)]
  /\ UNCHANGED <<serverVars, authContext, languageContext, browser, tasks, settled>>

\* the i18n.changeLanguage(language) of the effect that runs on mount resolves
i18nSynced ==
  \E t \in BagToSet(tasks) :
    /\ Suspended(t, "i18nSync", "i18n.changeLanguage")
    /\ browser' = [browser EXCEPT !.i18n = t.arg]
    /\ tasks' = Without(t)
    /\ UNCHANGED <<serverVars, authContext, languageContext, firebase, settled>>

i18nSyncFailed ==
  \E t \in BagToSet(tasks) :
    /\ Suspended(t, "i18nSync", "i18n.changeLanguage")
    /\ tasks' = Without(t)
    /\ UNCHANGED <<serverVars, authContext, languageContext, firebase, browser, settled>>

clearLanguageError ==
  /\ languageContext.error # Null
  /\ languageContext' = [languageContext EXCEPT !.error = Null]
  /\ UNCHANGED <<serverVars, authContext, firebase, browser, tasks, settled>>

\* what localStorage may hold when the application is loaded
SavedLanguages == {Null, Str(<<"hi">>), Str(<<"fr">>)}

LanguageDocs ==
  {Undefined} \cup
  {Obj([uid |-> Str(<<"u1">>), displayName |-> Str(<<>>), language |-> l]) :
     l \in {Str(<<"en">>)}}

\* i18n is initialised with the saved language or 'en', LanguageProvider
\* mounts, and its two effects run
InitLanguage ==
  /\ ServerIdle
  /\ authContext = AuthProviderMounted
  /\ settled = NoneSettled
  /\ \E savedLanguage \in SavedLanguages, currentUser \in {Null, FirebaseUser},
        userDoc \in LanguageDocs :
       /\ browser = [i18n |-> OrElse(savedLanguage, Str(<<"en">>)),
                     preferredLanguage |-> savedLanguage]
       /\ languageContext = LanguageProviderMounted(savedLanguage)
       /\ firebase = [currentUser |-> currentUser, userDoc |-> userDoc,
                      pending |-> <<>>, codeSent |-> FALSE]
       /\ tasks =
            (IF browser.i18n # languageContext.language
             THEN One(ListenerTask("i18nSync", languageContext.language, Null,
                                   "i18n.changeLanguage"))
             ELSE EmptyBag)
            (+) (IF Truthy(currentUser)
                 THEN One(ListenerTask("auth.onAuthStateChanged", currentUser,
                                       languageContext.language, "getDoc"))
                 ELSE EmptyBag)

NextLanguage ==
  \/ changeLanguage
  \/ changeLanguageResolved
  \/ changeLanguageRejected
  \/ languageSynced
  \/ languageSyncFailed
  \/ languageWritten
  \/ languageWriteFailed
  \/ i18nSynced
  \/ i18nSyncFailed
  \/ clearLanguageError

SpecLanguage == InitLanguage /\ [][NextLanguage]_vars

(***************************************************************************)
(* chatService.js: the client reads the chats that askGemini wrote.  The   *)
(* reads go to the same store, chats.                                      *)
(***************************************************************************)
Bool(b) == [t |-> "boolean", b |-> b]

\* timestamp?.toDate()
toDate(timestamp) ==
  IF timestamp \in {Undefined, Null} THEN Undefined
  ELSE [t |-> "date", of |-> timestamp]

\* the catch blocks of getChatById and getChatHistory
getChatByIdErrorMessage(error) ==
  IF error.code = "permission-denied"
  THEN <<"You do not have permission to access this chat">>
  ELSE IF error.message # <<>> THEN error.message
  ELSE <<"Failed to retrieve chat">>

getChatHistoryErrorMessage(error) ==
  IF error.code = "permission-denied"
  THEN <<"You do not have permission to access chat history">>
  ELSE IF error.code = "failed-precondition"
  THEN <<"Database index required. Please contact support.">>
  ELSE IF error.message # <<>> THEN error.message
  ELSE <<"Failed to retrieve chat history">>

\* the errors the store may reject a read with
ReadErrors == {FirebaseError("unavailable", <<"Failed to get document because the client is offline.">>)}

UserIds == {Undefined} \cup {Str(<<u>>) : u \in Users}

ChatIdArguments == {Undefined} \cup {Str(<<id>>) : id \in ChatIds}

Limits == {Undefined, Num(1), Num(0)}

\* one read of the application at a time
MayRead == RunningBy("application") = {}

\* getChatById(userId, chatId), to the await of getDoc
getChatById ==
  \E userId \in UserIds, chatId \in ChatIdArguments :
    /\ MayRead
    /\ IF ~Truthy(userId)
       THEN SettleAtOnce("getChatById", Arr(<<userId, chatId>>),
                         Thrown(getChatByIdErrorMessage(
                                  FirebaseError("", <<"User ID is required">>))))
       ELSE IF ~Truthy(chatId)
       THEN SettleAtOnce("getChatById", Arr(<<userId, chatId>>),
                         Thrown(getChatByIdErrorMessage(
                                  FirebaseError("", <<"Chat ID is required">>))))
       ELSE /\ tasks' = Begin("getChatById", Arr(<<userId, chatId>>), Null, "getDoc")
            /\ UNCHANGED settled
    /\ UNCHANGED <<serverVars, authContext, languageContext, firebase, browser>>

\* what getChatById does with the chatSnap of users/{userId}/chats/{chatId}
getChatByIdRead(userId, chatId) ==
  LET chatRef == ChatPath(userId, chatId.s[1])
  IN  IF chatRef \notin DOMAIN chats THEN Throw(<<"Chat not found">>)
      ELSE IF Get(chats[chatRef], "userId") # userId
      THEN Throw(<<"You do not have permission to access this chat">>)
      ELSE Ok(Obj([success |-> Bool(TRUE),
                   chat |-> Merge(Merge(Obj([id |-> chatId]), chats[chatRef]),
                                  Obj([timestamp |->
                                         toDate(Get(chats[chatRef], "timestamp"))]))]))

getChatByIdResolved ==
  \E t \in BagToSet(tasks) :
    LET read == getChatByIdRead(t.arg.a[1], t.arg.a[2])
    IN  /\ Suspended(t, "getChatById", "getDoc")
        /\ Settle(t, IF read.ok THEN Returned(read.v)
                     ELSE Thrown(getChatByIdErrorMessage(FirebaseError("", read.message))))
        /\ UNCHANGED <<serverVars, authContext, languageContext, firebase, browser>>

getChatByIdRejected ==
  \E t \in BagToSet(tasks), error \in ReadErrors :
    /\ Suspended(t, "getChatById", "getDoc")
    /\ Settle(t, Thrown(getChatByIdErrorMessage(error)))
    /\ UNCHANGED <<serverVars, authContext, languageContext, firebase, browser>>

\* getChatHistory(userId, limit = 50), to the await of getDocs
getChatHistory ==
  \E userId \in UserIds, given \in Limits :
    LET limit == IF given = Undefined THEN Num(50) ELSE given
    IN  /\ MayRead
        /\ IF ~Truthy(userId)
           THEN SettleAtOnce("getChatHistory", Arr(<<userId, given>>),
                             Thrown(getChatHistoryErrorMessage(
                                      FirebaseError("", <<"User ID is required">>))))
           ELSE IF TypeOf(limit) # "number" \/ limit.n < 1 \/ limit.n > 100
           THEN SettleAtOnce("getChatHistory", Arr(<<userId, given>>),
                             Thrown(getChatHistoryErrorMessage(
                                      FirebaseError("", <<"Limit must be a number between 1 and 100">>))))
           ELSE /\ tasks' = Begin("getChatHistory", Arr(<<userId, limit>>), Null, "getDocs")
                /\ UNCHANGED settled
        /\ UNCHANGED <<serverVars, authContext, languageContext, firebase, browser>>

\* the documents of users/{userId}/chats whose field userId is userId, the
\* latest first (documents of one timestamp by their names), limit at most
QuerySnapshot(userId, limit) ==
  LET latestFirst == [n \in 1..Cardinality(ChatIds) |->
                        "chat" \o ToString(Cardinality(ChatIds) + 1 - n)]
      Matches(id) == /\ ChatPath(userId, id) \in DOMAIN chats
                     /\ Get(chats[ChatPath(userId, id)], "userId") = userId
      found == SelectSeq(latestFirst, Matches)
  IN  SubSeq(found, 1, IF Len(found) < limit THEN Len(found) ELSE limit)

getChatHistoryResolved ==
  \E t \in BagToSet(tasks) :
    LET userId == t.arg.a[1]
        docs == QuerySnapshot(userId, t.arg.a[2].n)
        chatsRead == [n \in 1..Len(docs) |->
                        LET doc == chats[ChatPath(userId, docs[n])]
                        IN  Merge(Merge(Obj([id |-> Str(<<docs[n]>>)]), doc),
                                  Obj([timestamp |-> toDate(Get(doc, "timestamp"))]))]
    IN  /\ Suspended(t, "getChatHistory", "getDocs")
        /\ Settle(t, Returned(Obj([success |-> Bool(TRUE), chats |-> Arr(chatsRead),
                                   count |-> Num(Len(chatsRead))])))
        /\ UNCHANGED <<serverVars, authContext, languageContext, firebase, browser>>

getChatHistoryRejected ==
  \E t \in BagToSet(tasks), error \in ReadErrors :
    /\ Suspended(t, "getChatHistory", "getDocs")
    /\ Settle(t, Thrown(getChatHistoryErrorMessage(error)))
    /\ UNCHANGED <<serverVars, authContext, languageContext, firebase, browser>>

\* the questions that are asked while the chats are read
AskRequests == {r \in ConcurrentRequests : r[1] = "askGemini"}

\* the functions are deployed with the key, no chat is stored, the client is loaded
InitChatService == ServerIdle /\ ClientInit

NextChatService ==
  \/ \E i \in Invocations, r \in AskRequests, u \in Users :
       Invoke(i, r[1], r[2], AuthContext(u))
  \/ \E i \in Invocations : AskStart(i)
  \/ \E i \in Invocations : AskModelResolved(i)
  \/ \E i \in Invocations : AskModelRejected(i)
  \/ \E i \in Invocations : AskSetResolved(i)
  \/ \E i \in Invocations : AskSetRejected(i)
  \/ getChatById
  \/ getChatByIdResolved
  \/ getChatByIdRejected
  \/ getChatHistory
  \/ getChatHistoryResolved
  \/ getChatHistoryRejected

SpecChatService == InitChatService /\ [][NextChatService]_vars

(***************************************************************************)
(* Vocabulary of the properties.                                           *)
(***************************************************************************)
Started(i) == pc[i] # "idle"
Done(i) == pc[i] = "done"
Failed(i) == Done(i) /\ outcome[i].kind = "error"
Succeeded(i) == Done(i) /\ outcome[i].kind = "return"

\* the call context carries no auth or no uid
NoIdentity(c) == ~Truthy(Get(c, "auth")) \/ ~Truthy(Get(Get(c, "auth"), "uid"))

\* the caller's uid, as a chunk
CallerUid(c) == Get(Get(c, "auth"), "uid").s[1]

\* no external call was issued and the stores are as they were
NothingAttempted(i) ==
  /\ calls[i] = <<>>
  /\ chats = before[i].chats
  /\ blobs = before[i].blobs

\* the invocation ended at its first step, with an error
FailsAtOnce(i) == pc[i] \in {"start", "done"} /\ (Done(i) => Failed(i))

LanguageCodes == {<<"en">>, <<"hi">>, <<"ta">>, <<"te">>}

\* a required field is missing, null or empty
FieldAbsent(d, k) == Get(d, k) \in {Undefined, Null, Str(<<>>)}

\* the language is not one of en, hi, ta, te
BadLanguage(d) == ~(Get(d, "language").t = "string" /\ Get(d, "language").s \in LanguageCodes)

\* the text is a string longer than the cap
TooLong(v, cap) == v.t = "string" /\ StrLength(v.s) > cap

\* request validation fails, for the reasons the operations check
InvalidRequest(o, d) ==
  CASE o = "askGemini" ->
         \/ \E k \in {"question", "farmProfile", "language"} : FieldAbsent(d, k)
         \/ BadLanguage(d)
         \/ TooLong(Get(d, "question"), 1000)
         \/ Get(d, "farmProfile").t \notin {"object", "array"}
    [] o = "synthesizeSpeech" ->
         \/ \E k \in {"text", "language"} : FieldAbsent(d, k)
         \/ BadLanguage(d)
         \/ TooLong(Get(d, "text"), 5000)
    [] o = "transcribeAudio" ->
         \/ \E k \in {"audioPath", "language"} : FieldAbsent(d, k)
         \/ BadLanguage(d)
         \/ ~(Get(d, "audioPath").t = "string"
              /\ StartsWith(Get(d, "audioPath").s, <<"audio/">>))
    [] OTHER -> FALSE

\* an askGemini request that passes every validation
ValidAskInputs(d) ==
  /\ ~InvalidRequest("askGemini", d)
  /\ Get(d, "question").t = "string"

\* the credential is unset, empty or the placeholder
KeyMissing == env \in {Undefined, Str(<<>>), Str(<<"YOUR_GEMINI_API_KEY">>)}

(***************************************************************************)
(* C1: for every caller uid and every audioPath that does not begin with   *)
(* audio/{uid}/, transcribeAudio makes no blob access (exists, signed URL) *)
(* and no speech-recognition call, and fails.                              *)
(***************************************************************************)
C1_ForeignPathNeverAccessed ==
  \A i \in Invocations :
    (/\ op[i] = "transcribeAudio"
     /\ Started(i)
     /\ ~NoIdentity(context[i])
     /\ ~(/\ Get(data[i], "audioPath").t = "string"
          /\ StartsWith(Get(data[i], "audioPath").s,
                        <<"audio/", CallerUid(context[i]), "/">>)))
    => /\ calls[i] = <<>>
       /\ FailsAtOnce(i)

(***************************************************************************)
(* C2: when the call context carries no auth or no uid, the invocation of  *)
(* any of the three functions fails with the authentication error, whatever*)
(* the request data, and issues no model, speech, TTS, blob-store or       *)
(* Firestore call and changes no store.                                    *)
(***************************************************************************)
C2_UnauthenticatedDoesNothing ==
  \A i \in Invocations :
    (Started(i) /\ NoIdentity(context[i]))
    => /\ NothingAttempted(i)
       /\ FailsAtOnce(i)
       /\ Done(i) => outcome[i].message[Len(outcome[i].message)]
                       \in {"Unauthenticated: No auth token provided",
                            "Unauthenticated: Invalid auth token"}

\* an unauthenticated askGemini call whose request would otherwise succeed has ended
C2_Witness ==
  \E i \in Invocations :
    /\ Done(i)
    /\ op[i] = "askGemini"
    /\ NoIdentity(context[i])
    /\ ValidAskInputs(data[i])
    /\ ~KeyMissing

(***************************************************************************)
(* C3: an authentication failure is reported to the caller with the error  *)
(* kind 'unauthenticated'.                                                 *)
(***************************************************************************)
C3_UnauthenticatedKind ==
  \A i \in Invocations :
    (Done(i) /\ NoIdentity(context[i]))
    => /\ outcome[i].kind = "error"
       /\ outcome[i].code = "unauthenticated"

(***************************************************************************)
(* C4: in an authenticated invocation whose request validation fails (a    *)
(* required field missing, null or empty; a language outside en, hi, ta,   *)
(* te; a text longer than 1000 resp. 5000 characters; a farmProfile that   *)
(* is no object; an audioPath that does not start with 'audio/'), the      *)
(* invocation fails and no external call is issued and no store changes.   *)
(***************************************************************************)
C4_InvalidRequestDoesNothing ==
  \A i \in Invocations :
    (Started(i) /\ ~NoIdentity(context[i]) /\ InvalidRequest(op[i], data[i]))
    => /\ NothingAttempted(i)
       /\ FailsAtOnce(i)

\* an authenticated askGemini call, valid but for its language "EN", has ended
C4_Witness ==
  \E i \in Invocations :
    /\ Done(i)
    /\ op[i] = "askGemini"
    /\ ~NoIdentity(context[i])
    /\ ~KeyMissing
    /\ data[i] = Obj([question |-> Str(<<X1000>>), farmProfile |-> FullProfile,
                      language |-> Str(<<"EN">>)])

(***************************************************************************)
(* C5: an authenticated askGemini invocation with valid inputs, with the   *)
(* credential unset, empty or the placeholder, fails with the error kind   *)
(* 'failed-precondition'; the model is not invoked, no ChatRecord written. *)
(***************************************************************************)
C5_MissingKeyFailsPrecondition ==
  \A i \in Invocations :
    (/\ op[i] = "askGemini"
     /\ Started(i)
     /\ ~NoIdentity(context[i])
     /\ ValidAskInputs(data[i])
     /\ KeyMissing)
    => /\ NothingAttempted(i)
       /\ FailsAtOnce(i)
       /\ Done(i) => outcome[i].code = "failed-precondition"

\* such an invocation, with the placeholder as the credential, has ended
C5_Witness ==
  \E i \in Invocations :
    /\ Done(i)
    /\ op[i] = "askGemini"
    /\ ~NoIdentity(context[i])
    /\ ValidAskInputs(data[i])
    /\ env = Str(<<"YOUR_GEMINI_API_KEY">>)

(***************************************************************************)
(* C6: askGemini reports 'failed-precondition' only when the credential is *)
(* absent or a placeholder: with the credential configured, every failure  *)
(* is reported with the kind 'internal', carrying the underlying message.  *)
(***************************************************************************)
C6_PreconditionOnlyForKey ==
  \A i \in Invocations :
    (op[i] = "askGemini" /\ Failed(i) /\ ~KeyMissing)
    => /\ outcome[i].code = "internal"
       /\ Head(outcome[i].message) = "Failed to get AI response: "

(***************************************************************************)
(* C7: in one askGemini invocation the model is invoked at most once, and  *)
(* exactly once in every invocation that passes authentication, validation *)
(* and the credential check; a failed model call ends the invocation.      *)
(***************************************************************************)
C7_ModelInvokedExactlyOnce ==
  \A i \in Invocations :
    op[i] = "askGemini"
    => /\ CallCount(i, "generateContent") <= 1
       /\ (/\ pc[i] \notin {"idle", "start"}
           /\ ~NoIdentity(context[i])
           /\ ValidAskInputs(data[i])
           /\ ~KeyMissing)
          => CallCount(i, "generateContent") = 1

(***************************************************************************)
(* C8: an askGemini invocation that returns a response has created exactly *)
(* one ChatRecord, under users/{uid}/chats of the caller, keyed by the     *)
(* returned chatId; an invocation that has not reached the write has       *)
(* created none.                                                           *)
(***************************************************************************)
C8_OneChatRecordPerResponse ==
  \A i \in Invocations :
    op[i] = "askGemini"
    => /\ Succeeded(i)
          => LET chatId == Get(outcome[i].value, "chatId")
                 path == <<"users", CallerUid(context[i]), "chats">> \o chatId.s
             IN  /\ chatId.t = "string"
                 /\ Len(chatId.s) = 1
                 /\ path \notin DOMAIN before[i].chats
                 /\ DOMAIN chats = DOMAIN before[i].chats \cup {path}
                 /\ \A p \in DOMAIN before[i].chats : chats[p] = before[i].chats[p]
                 /\ Get(chats[path], "answer") = Get(outcome[i].value, "answer")
                 /\ CallCount(i, "set") = 1
       /\ (Started(i) /\ pc[i] # "set" /\ ~Succeeded(i)) => chats = before[i].chats

\* a response was returned to u2 while u1 already had a chat stored
C8_Witness ==
  \E i \in Invocations :
    /\ op[i] = "askGemini"
    /\ Succeeded(i)
    /\ CallerUid(context[i]) = "u2"
    /\ before[i].chats # <<>>

(***************************************************************************)
(* C9: if the ChatRecord write fails, askGemini fails with an error and    *)
(* returns no response: while the write is pending nothing is returned,    *)
(* and a response is returned only with the record stored.                 *)
(***************************************************************************)
C9_NoResponseWithoutRecord ==
  \A i \in Invocations :
    op[i] = "askGemini"
    => /\ pc[i] = "set" => outcome[i].kind = "none"
       /\ (Done(i) /\ CallCount(i, "set") = 1 /\ chats = before[i].chats)
          => /\ outcome[i].kind = "error"
             /\ outcome[i].value = Undefined

\* the write was issued and failed
C9_Witness ==
  \E i \in Invocations :
    /\ op[i] = "askGemini"
    /\ Failed(i)
    /\ CallCount(i, "set") = 1
    /\ chats = before[i].chats

(***************************************************************************)
(* C10: for every model reply, the value askGemini returns has a non-empty *)
(* string answer, a confidence among High, Medium, Low, and lists of       *)
(* strings as sources and suggestions.                                     *)
(***************************************************************************)
ListOfStrings(v) == v.t = "array" /\ \A n \in 1..Len(v.a) : v.a[n].t = "string"

C10_ResponseTypeCorrect ==
  \A i \in Invocations :
    (op[i] = "askGemini" /\ Succeeded(i))
    => LET r == outcome[i].value
       IN  /\ Get(r, "answer").t = "string"
           /\ Get(r, "answer").s # <<>>
           /\ Get(r, "confidence") \in {Str(<<"High">>), Str(<<"Medium">>), Str(<<"Low">>)}
           /\ ListOfStrings(Get(r, "sources"))
           /\ ListOfStrings(Get(r, "suggestions"))

\* the reply holds no "{" ... "}" slice, or its slice is not valid JSON
NoJsonObject(responseText) ==
  \/ jsonMatch(responseText) = Null
  \/ ~JSONparse(jsonMatch(responseText).s).ok

\* r is the degraded response for the raw text
IsDegraded(r, responseText) ==
  /\ Get(r, "answer") = Str(responseText)
  /\ Get(r, "confidence") = Str(<<"Medium">>)
  /\ Get(r, "sources") = Arr(<<Str(<<"Gemini AI">>)>>)
  /\ Get(r, "suggestions") = Arr(<<>>)

\* invocation i of askGemini has received the model's reply
Replied(i) == op[i] = "askGemini" /\ local[i].responseText # Undefined

\* with a reply that is no JSON, the invocation goes on with the degraded
\* response, fails only if the write fails, and returns the degraded response
DegradesGracefully(i) ==
  LET responseText == local[i].responseText.s
  IN  /\ pc[i] \in {"set", "done"}
      /\ IsDegraded(local[i].aiResponse, responseText)
      /\ Failed(i) => CallCount(i, "set") = 1
      /\ Succeeded(i) => IsDegraded(outcome[i].value, responseText)

(***************************************************************************)
(* C11, as stated: for every raw model text without a '{'...'}' slice, or  *)
(* whose slice is not valid JSON, askGemini does not fail because of the   *)
(* reply: it continues with the degraded response (answer = the raw text,  *)
(* confidence Medium, sources ['Gemini AI'], suggestions []) and, unless   *)
(* the write fails, returns it.                                            *)
(***************************************************************************)
C11_FallbackNeverFails ==
  \A i \in Invocations :
    (Replied(i) /\ NoJsonObject(local[i].responseText.s))
    => DegradesGracefully(i)

(***************************************************************************)
(* C11, amended: the same for every raw text that is not empty; with the   *)
(* empty raw text the degraded answer is empty, and askGemini fails with   *)
(* 'internal' (missing answer field) and writes no ChatRecord.             *)
(***************************************************************************)
C11_FallbackUnlessEmpty ==
  \A i \in Invocations :
    (Replied(i) /\ NoJsonObject(local[i].responseText.s))
    => IF local[i].responseText.s # <<>>
       THEN DegradesGracefully(i)
       ELSE /\ Failed(i)
            /\ outcome[i].code = "internal"
            /\ outcome[i].message = <<"Failed to get AI response: ",
                                      "Invalid AI response: missing answer field">>
            /\ CallCount(i, "set") = 0
            /\ chats = before[i].chats

\* a reply whose slice is not valid JSON was returned whole as the answer
C11_Witness ==
  \E i \in Invocations :
    /\ Succeeded(i)
    /\ Replied(i)
    /\ local[i].responseText.s = <<"{", MAnswer, ",", "}">>
    /\ Get(outcome[i].value, "answer") = Str(<<"{", MAnswer, ",", "}">>)

\* the object JSON.parse reads from the slice of a reply that holds valid JSON
ParsedObject(responseText) == JSONparse(jsonMatch(responseText).s).v

(***************************************************************************)
(* C12: when the reply's JSON slice parses and the parsed object has a     *)
(* missing or falsy answer, askGemini fails with 'internal' (invalid AI    *)
(* response), returns no response and writes no ChatRecord.                *)
(***************************************************************************)
C12_MissingAnswerFails ==
  \A i \in Invocations :
    (/\ Replied(i)
     /\ ~NoJsonObject(local[i].responseText.s)
     /\ ~Truthy(Get(ParsedObject(local[i].responseText.s), "answer")))
    => /\ Failed(i)
       /\ outcome[i].code = "internal"
       /\ outcome[i].message = <<"Failed to get AI response: ",
                                 "Invalid AI response: missing answer field">>
       /\ outcome[i].value = Undefined
       /\ CallCount(i, "set") = 0
       /\ chats = before[i].chats

\* the model replied {"confidence":"High"}, without an answer
C12_Witness ==
  \E i \in Invocations :
    /\ Done(i)
    /\ Replied(i)
    /\ local[i].responseText.s = <<"{", MConfHigh, "}">>

\* the normalisation of one field: v if keep, the default otherwise
KeptOr(keep, v, default) == IF keep THEN v ELSE default

(***************************************************************************)
(* C13: for a parsed reply with a usable answer, the response askGemini    *)
(* goes on with (and returns) has the parsed answer unaltered; the parsed  *)
(* confidence if it is exactly High, Medium or Low, and Medium otherwise;  *)
(* the parsed sources if they are an array, and ['Gemini AI'] otherwise;   *)
(* the parsed suggestions if they are an array, and [] otherwise.          *)
(***************************************************************************)
C13_NormalizationKeepsValid ==
  \A i \in Invocations :
    (/\ Replied(i)
     /\ ~NoJsonObject(local[i].responseText.s)
     /\ Truthy(Get(ParsedObject(local[i].responseText.s), "answer")))
    => LET parsed == ParsedObject(local[i].responseText.s)
           r == local[i].aiResponse
       IN  /\ pc[i] \in {"set", "done"}
           /\ Get(r, "answer") = Get(parsed, "answer")
           /\ Get(r, "confidence") =
                KeptOr(Get(parsed, "confidence")
                         \in {Str(<<"High">>), Str(<<"Medium">>), Str(<<"Low">>)},
                       Get(parsed, "confidence"), Str(<<"Medium">>))
           /\ Get(r, "sources") =
                KeptOr(Get(parsed, "sources").t = "array",
                       Get(parsed, "sources"), Arr(<<Str(<<"Gemini AI">>)>>))
           /\ Get(r, "suggestions") =
                KeptOr(Get(parsed, "suggestions").t = "array",
                       Get(parsed, "suggestions"), Arr(<<>>))
           /\ Succeeded(i)
              => \A k \in {"answer", "confidence", "sources", "suggestions"} :
                   Get(outcome[i].value, k) = Get(r, k)

\* a reply with the confidence VeryHigh, a string as sources and null as
\* suggestions was returned with the defaults in their places
C13_Witness ==
  \E i \in Invocations :
    /\ Succeeded(i)
    /\ Replied(i)
    /\ local[i].responseText.s =
         <<"{", MAnswer, ",", MConfVeryHigh, ",", MSourcesString, ",", MSuggestionsNull, "}">>
    /\ Get(outcome[i].value, "confidence") = Str(<<"Medium">>)

\* invocations i and j ran the same function for the same user, and both
\* returned a result
BothReturned(i, j, o) ==
  /\ i # j
  /\ op[i] = o /\ op[j] = o
  /\ Succeeded(i) /\ Succeeded(j)
  /\ CallerUid(context[i]) = CallerUid(context[j])

\* the blob path invocation i returned
StoragePath(i) == Get(outcome[i].value, "storagePath").s

\* the document path of the chat invocation i returned
ReturnedChatPath(i) ==
  <<"users", CallerUid(context[i]), "chats">> \o Get(outcome[i].value, "chatId").s

(***************************************************************************)
(* C14: two concurrent invocations for the same user do not contend on a   *)
(* shared resource: two synthesizeSpeech calls that ran at once (neither   *)
(* was invoked after the other's blob was written) stored their audio      *)
(* under distinct blob paths, and two askGemini calls created two distinct *)
(* ChatRecords.                                                            *)
(***************************************************************************)
C14_ConcurrentCallsDoNotContend ==
  \A i, j \in Invocations :
    /\ (/\ BothReturned(i, j, "synthesizeSpeech")
        /\ StoragePath(i) \notin DOMAIN before[j].blobs
        /\ StoragePath(j) \notin DOMAIN before[i].blobs)
       => StoragePath(i) # StoragePath(j)
    /\ BothReturned(i, j, "askGemini")
       => /\ ReturnedChatPath(i) # ReturnedChatPath(j)
          /\ {ReturnedChatPath(i), ReturnedChatPath(j)} \subseteq DOMAIN chats

(***************************************************************************)
(* C15: across any interleaving of invocations by any users, no step       *)
(* modifies or deletes a ChatRecord that exists; a step adds at most one   *)
(* record, and only the completed write of an askGemini invocation adds    *)
(* one, under users/{uid}/chats of that invocation's caller.               *)
(***************************************************************************)
C15_ChatRecordsNeverChange ==
  [][/\ \A p \in DOMAIN chats : p \in DOMAIN chats' /\ chats'[p] = chats[p]
     /\ Cardinality(DOMAIN chats' \ DOMAIN chats) <= 1
     /\ \A p \in DOMAIN chats' \ DOMAIN chats :
          \E i \in Invocations :
            /\ op[i] = "askGemini"
            /\ pc[i] = "set" /\ pc'[i] = "done"
            /\ SubSeq(p, 1, 3) = <<"users", CallerUid(context[i]), "chats">>
            /\ Len(p) = 4]_vars

\* two askGemini invocations that ran at once have both returned, with a
\* record stored before them
C15_Witness ==
  \E i, j \in Invocations :
    /\ BothReturned(i, j, "askGemini")
    /\ before[i].chats # <<>>
    /\ ReturnedChatPath(j) \notin DOMAIN before[i].chats
    /\ ReturnedChatPath(i) \notin DOMAIN before[j].chats
    /\ \A p \in DOMAIN before[i].chats : chats[p] = OldRecord

(***************************************************************************)
(* C16: if the text-to-speech provider's response carries no audio         *)
(* content, synthesizeSpeech fails with an error, writes no blob and       *)
(* generates no signed URL: the provider call is the invocation's only     *)
(* external call.                                                          *)
(***************************************************************************)
C16_NoAudioNoBlob ==
  \A i \in Invocations :
    (/\ op[i] = "synthesizeSpeech"
     /\ local[i].response # Undefined
     /\ ~Truthy(Get(local[i].response, "audioContent")))
    => /\ Failed(i)
       /\ outcome[i].message = <<"Failed to synthesize speech: ",
                                 "No audio content generated">>
       /\ Len(calls[i]) = 1
       /\ calls[i][1].api = "synthesizeSpeech"
       /\ blobs = before[i].blobs

\* the provider answered with an empty audioContent
C16_Witness ==
  \E i \in Invocations :
    /\ op[i] = "synthesizeSpeech"
    /\ Done(i)
    /\ local[i].response = Obj([audioContent |-> Str(<<>>)])

\* the apis of the calls invocation i has issued, in order
ApiSequence(i) == [n \in 1..Len(calls[i]) |-> calls[i][n].api]

(***************************************************************************)
(* C17: a synthesizeSpeech invocation issues the provider call, then the   *)
(* blob write, then the signed-URL generation, each after the one before   *)
(* it resolved; a successful invocation has issued exactly these three,    *)
(* has written one blob, under audio/{uid}/ of the caller, and returns as  *)
(* storagePath the path it wrote.                                          *)
(***************************************************************************)
C17_SynthesisStepsInOrder ==
  \A i \in Invocations :
    op[i] = "synthesizeSpeech"
    => /\ pc[i] = "synthesizeSpeech"
          => ApiSequence(i) = <<"synthesizeSpeech">> /\ blobs = before[i].blobs
       /\ pc[i] = "save"
          => ApiSequence(i) = <<"synthesizeSpeech", "save">> /\ blobs = before[i].blobs
       /\ pc[i] = "signedUrl"
          => /\ ApiSequence(i) = <<"synthesizeSpeech", "save", "getSignedUrl">>
             /\ calls[i][2].arg.s \in DOMAIN blobs
       /\ Succeeded(i)
          => LET path == Get(outcome[i].value, "storagePath")
             IN  /\ ApiSequence(i) = <<"synthesizeSpeech", "save", "getSignedUrl">>
                 /\ path.t = "string"
                 /\ StartsWith(path.s, <<"audio/", CallerUid(context[i]), "/">>)
                 /\ calls[i][2].arg = path
                 /\ calls[i][3].arg = path
                 /\ path.s \notin DOMAIN before[i].blobs
                 /\ DOMAIN blobs = DOMAIN before[i].blobs \cup {path.s}
                 /\ \A p \in DOMAIN before[i].blobs : blobs[p] = before[i].blobs[p]

\* a synthesizeSpeech invocation by u2 has returned
C17_Witness ==
  \E i \in Invocations :
    /\ op[i] = "synthesizeSpeech"
    /\ Succeeded(i)
    /\ CallerUid(context[i]) = "u2"
    /\ StoragePath(i) \in DOMAIN blobs

\* invocation i of transcribeAudio has received the recognition response
Recognized(i) == op[i] = "transcribeAudio" /\ local[i].response # Undefined

\* the result segments of a recognition response
Segments(response) ==
  IF Truthy(Get(response, "results")) THEN Get(response, "results").a ELSE <<>>

\* the response has no segments, or only segments without a transcript
NoUsableSpeech(response) ==
  \A n \in 1..Len(Segments(response)) :
    ~Truthy(Get(FirstAlternative(Segments(response)[n]), "transcript"))

(***************************************************************************)
(* C18: when the recognition yields no usable speech (no result segments,  *)
(* or only segments without a transcript), transcribeAudio does not fail:  *)
(* it returns transcript = '' and confidence = 0.                          *)
(***************************************************************************)
C18_NoSpeechReturnsEmpty ==
  \A i \in Invocations :
    (Recognized(i) /\ NoUsableSpeech(local[i].response))
    => /\ Succeeded(i)
       /\ Get(outcome[i].value, "transcript") = Str(<<>>)
       /\ Get(outcome[i].value, "confidence") = Num(0)

\* the confidence of every segment, in thousandths; 0 where there is none
SegmentConfidences(response) ==
  [n \in 1..Len(Segments(response)) |->
     LET c == Get(FirstAlternative(Segments(response)[n]), "confidence")
     IN  IF c.t = "number" THEN c.n ELSE 0]

\* r, in thousandths, is the arithmetic mean of the scores rounded to two
\* decimals (halves upwards), and 0 for no scores
IsRoundedMean(r, scores) ==
  IF scores = <<>> THEN r = 0
  ELSE /\ r % 10 = 0
       /\ Sum(scores) - 5 * Len(scores) < r * Len(scores)
       /\ r * Len(scores) <= Sum(scores) + 5 * Len(scores)

(***************************************************************************)
(* C19, as stated: the confidence transcribeAudio returns is the mean of   *)
(* the confidences of all result segments (0 without segments), rounded to *)
(* two decimals, and lies in [0,1].                                        *)
(***************************************************************************)
C19_ConfidenceIsMeanOfAll ==
  \A i \in Invocations :
    (Recognized(i) /\ Succeeded(i))
    => LET confidence == Get(outcome[i].value, "confidence")
       IN  /\ confidence.t = "number"
           /\ IsRoundedMean(confidence.n, SegmentConfidences(local[i].response))
           /\ confidence.n \in 0..1000

(***************************************************************************)
(* C19, amended: the confidence is the mean of the confidences of the      *)
(* segments that carry a positive confidence (0 if there is none), rounded *)
(* to two decimals, and lies in [0,1].                                     *)
(***************************************************************************)
C19_ConfidenceIsMeanOfPositive ==
  \A i \in Invocations :
    (Recognized(i) /\ Succeeded(i))
    => LET confidence == Get(outcome[i].value, "confidence")
       IN  /\ confidence.t = "number"
           /\ IsRoundedMean(confidence.n,
                            SelectSeq(SegmentConfidences(local[i].response),
                                      LAMBDA x : x > 0))
           /\ confidence.n \in 0..1000

\* three segments with the confidences 0.912, 0 and 0.805 gave 0.86
C19_Witness ==
  \E i \in Invocations :
    /\ Recognized(i)
    /\ Succeeded(i)
    /\ SegmentConfidences(local[i].response) = <<912, 0, 805>>
    /\ Get(outcome[i].value, "confidence") = Num(860)

\* v is a non-empty, trimmed string of at most cap characters
IsCleanText(v, cap) ==
  /\ v.t = "string"
  /\ v.s # <<>>
  /\ Trim(v.s) = v.s
  /\ StrLength(v.s) <= cap

(***************************************************************************)
(* C20: in every askGemini invocation that has built the prompt and called *)
(* the model, the question embedded in the prompt, and stored in the       *)
(* ChatRecord, is a non-empty, trimmed string of at most 1000 characters;  *)
(* the text synthesizeSpeech sends to the provider is a non-empty, trimmed *)
(* string of at most 5000 characters.                                      *)
(***************************************************************************)
C20_TextsNonEmptyTrimmedCapped ==
  \A i \in Invocations :
    /\ (op[i] = "askGemini" /\ CallCount(i, "generateContent") = 1)
       => /\ IsCleanText(local[i].question, 1000)
          /\ Includes(calls[i][1].arg.s,
                      <<"FARMER'S QUESTION: ">> \o local[i].question.s)
          /\ Succeeded(i)
             => Get(chats[ReturnedChatPath(i)], "question") = local[i].question
    /\ (op[i] = "synthesizeSpeech" /\ CallCount(i, "synthesizeSpeech") = 1)
       => /\ IsCleanText(local[i].text, 5000)
          /\ StartsWith(calls[i][1].arg.s, local[i].text.s)

(***************************************************************************)
(* Vocabulary of the properties of the functions called directly.          *)
(***************************************************************************)
Called(i, name) == Done(i) /\ op[i] = name
Argument(i, n) == data[i].a[n]
ThrewError(i) == Failed(i) /\ outcome[i].code = "Error"

\* a text of n spaces
Spaces(n) == [k \in 1..n |-> " "]

\* t is s without the whitespace at its two ends
IsTrimOf(t, s) ==
  /\ \E n, m \in 0..Len(s) : s = Spaces(n) \o t \o Spaces(m)
  /\ t # <<>> => ~IsSpace(t[1]) /\ ~IsSpace(t[Len(t)])

MissingOrNotString(text) == IsMissing(text) \/ text.t # "string"

(***************************************************************************)
(* C21: validateTextLength(text, maxLength) fails with "Invalid text       *)
(* input" when text is missing (undefined, null or "") or is not a string, *)
(* fails with "Text too long" exactly when the length of the untrimmed     *)
(* text is above maxLength, and otherwise returns the text without its     *)
(* leading and trailing whitespace.                                        *)
(***************************************************************************)
C21_TextLengthContract ==
  \A i \in Invocations :
    Called(i, "validateTextLength") =>
      LET text == Argument(i, 1)
          maxLength == Argument(i, 2).n
      IN  IF MissingOrNotString(text)
          THEN ThrewError(i) /\ outcome[i].message = <<"Invalid text input">>
          ELSE IF StrLength(text.s) > maxLength
          THEN /\ ThrewError(i)
               /\ outcome[i].message[1] = "Text too long. Maximum length: "
          ELSE /\ Succeeded(i)
               /\ outcome[i].value.t = "string"
               /\ IsTrimOf(outcome[i].value.s, text.s)

\* a text of maxLength characters after a space, maxLength + 1 untrimmed,
\* was refused as too long
C21_Witness ==
  \E i \in Invocations :
    /\ Called(i, "validateTextLength")
    /\ Argument(i, 1) = Str(<<" ", X1000>>)
    /\ Argument(i, 2) = Num(1000)
    /\ ThrewError(i)

\* the four language codes, as values
SupportedCodes == {Str(c) : c \in LanguageCodes}

Handlers == {"askGemini", "transcribeAudio", "synthesizeSpeech"}

\* the lookups languageNames[language], voiceConfig[language] find an entry,
\* so that their || alternative is not taken
TablesHave(language) ==
  /\ language.t = "string" /\ Len(language.s) = 1
  /\ language.s[1] \in DOMAIN languageNames
  /\ language.s[1] \in DOMAIN voiceConfig

(***************************************************************************)
(* C22: validateLanguage returns its argument exactly when it is one of    *)
(* en, hi, ta, te and throws for every other value, case variants          *)
(* included; so the language a handler works with, looks up in its tables  *)
(* and writes to a ChatRecord is one of the four, and no lookup falls back. *)
(***************************************************************************)
C22_LanguageAlwaysSupported ==
  /\ \A i \in Invocations :
       Called(i, "validateLanguage") =>
         IF Argument(i, 1) \in SupportedCodes
         THEN Succeeded(i) /\ outcome[i].value = Argument(i, 1)
         ELSE ThrewError(i)
  /\ \A i \in Invocations :
       op[i] \in Handlers /\ local[i].language # Undefined =>
         local[i].language \in SupportedCodes /\ TablesHave(local[i].language)
  /\ \A p \in DOMAIN chats : Get(chats[p], "language") \in SupportedCodes

\* validateLanguage has been called with the case variant "EN" and threw
C22_Witness ==
  \E i \in Invocations :
    /\ Called(i, "validateLanguage")
    /\ Argument(i, 1) = Str(<<"EN">>)
    /\ ThrewError(i)

\* the names of the list whose field of the object is undefined, null or ""
AbsentNames(d, names) ==
  SelectSeq(names, LAMBDA k : Get(d, k) \in {Undefined, Null, Str(<<>>)})

\* the message is the prefix and then the names, ", " between them
NamesAll(message, names) ==
  /\ Len(message) = 2 * Len(names)
  /\ message[1] = "Missing required fields: "
  /\ \A n \in 1..Len(names) : message[2 * n] = names[n]
  /\ \A n \in 1..(Len(names) - 1) : message[2 * n + 1] = ", "

(***************************************************************************)
(* C23: for every data object and every list of required names,            *)
(* validateRequiredFields returns iff no listed field is undefined, null   *)
(* or "", and otherwise throws an error whose message names every such     *)
(* field, in the order of the list.                                        *)
(***************************************************************************)
C23_AllMissingFieldsNamed ==
  \A i \in Invocations :
    Called(i, "validateRequiredFields") =>
      LET d == Argument(i, 1)
          names == [n \in 1..Len(Argument(i, 2).a) |-> Argument(i, 2).a[n].s[1]]
      IN  IF AbsentNames(d, names) = <<>>
          THEN Succeeded(i)
          ELSE ThrewError(i) /\ NamesAll(outcome[i].message, AbsentNames(d, names))

\* question is "" and language is not there, farmProfile is: the error names
\* question and language
C23_Witness ==
  \E i \in Invocations :
    /\ Called(i, "validateRequiredFields")
    /\ Argument(i, 1) = Obj([question |-> Str(<<>>), farmProfile |-> Num(0)])
    /\ Argument(i, 2) = Arr(<<Str(<<"question">>), Str(<<"farmProfile">>), Str(<<"language">>)>>)
    /\ ThrewError(i)
    /\ outcome[i].message = <<"Missing required fields: ", "question", ", ", "language">>

\* the chunks of s after the chunk from and before the chunk to
Between(s, from, to) ==
  LET a == CHOOSE n \in 1..Len(s) : s[n] = from
      b == CHOOSE n \in 1..Len(s) : s[n] = to
  IN  SubSeq(s, a + 1, b - 1)

Has(s, c) == \E n \in 1..Len(s) : s[n] = c

\* how a field is to appear: its value, or Not specified when it is missing
Shown(v) == IF v = Undefined THEN <<"Not specified">> ELSE JSToString(v)

\* the lines of the farmer's context show the fields of the profile
ShowsProfile(prompt, farmProfile) ==
  LET crops == Get(farmProfile, "crops")
      location == Get(farmProfile, "location")
      area == Get(farmProfile, "area")
      areaLine == Between(prompt, "- Farm Area: ", "- Current Season: ")
  IN  /\ Between(prompt, "- Crops: ", "- Location: ") =
           IF crops = Undefined \/ crops = Arr(<<>>) THEN <<"Not specified">>
           ELSE Join([n \in 1..Len(crops.a) |-> crops.a[n].s], <<", ">>)
      /\ Between(prompt, "- Location: ", "- Soil Type: ") =
           Shown(Get(location, "village")) \o <<", ">>
           \o Shown(Get(location, "district")) \o <<", ">>
           \o Shown(Get(location, "state"))
      /\ Between(prompt, "- Soil Type: ", "- Irrigation: ") =
           Shown(Get(farmProfile, "soilType"))
      /\ Between(prompt, "- Irrigation: ", "- Farm Area: ") =
           Shown(Get(farmProfile, "irrigationType"))
      /\ Between(prompt, "- Current Season: ", "INSTRUCTIONS: ... 3. Answer in ") =
           Shown(Get(farmProfile, "season"))
      /\ IF area = Undefined THEN areaLine = <<"Not specified">>
         ELSE /\ \A k \in {"value", "unit"} :
                   IF Get(area, k) = Undefined
                   THEN Has(areaLine, "Not specified")
                   ELSE Has(areaLine, JSToString(Get(area, k))[1])
              /\ ~Has(areaLine, "undefined")

(***************************************************************************)
(* C24: for every farm profile with any of crops, location.village,        *)
(* location.district, location.state, soilType, irrigationType,            *)
(* area.value, area.unit and season, buildAgriculturalPrompt returns a     *)
(* string in which each field that is there appears with its value and     *)
(* each field that is missing, nested ones included, as Not specified.     *)
(***************************************************************************)
C24_MissingFieldsNotSpecified ==
  \A i \in Invocations :
    Called(i, "buildAgriculturalPrompt") =>
      /\ Succeeded(i)
      /\ outcome[i].value.t = "string"
      /\ ShowsProfile(outcome[i].value.s, Argument(i, 1))

\* the same, for the profiles whose area, when there, has value and unit
C24_HoldsForWholeAreas ==
  \A i \in Invocations :
    /\ Called(i, "buildAgriculturalPrompt")
    /\ LET area == Get(Argument(i, 1), "area")
       IN  area # Undefined => Get(area, "value") # Undefined /\ Get(area, "unit") # Undefined
    => /\ Succeeded(i)
       /\ ShowsProfile(outcome[i].value.s, Argument(i, 1))

(***************************************************************************)
(* Vocabulary of the properties of the client.                             *)
(***************************************************************************)
AuthOperations == {"login", "verifyOTP", "logout", "updateProfile"}

\* the auth operations that have started and have not settled
PendingAuthOperations == {t \in BagToSet(tasks) : t.fn \in AuthOperations}

(***************************************************************************)
(* C25: whenever at least one of login, verifyOTP, logout and              *)
(* updateProfile has started and has not settled, loading is true, also    *)
(* when two of them overlap and one settles before the other.              *)
(***************************************************************************)
C25_LoadingWhileOperationPending ==
  PendingAuthOperations # {} => authContext.loading = TRUE

\* the step is the call t of fn, which runs to its first await
Suspends(t, fn) == t.fn = fn /\ t.by = "application" /\ tasks' = tasks (+) One(t)

CallSuspends(fn) == \E t \in BagToSet(tasks') : Suspends(t, fn)

\* the step is a call of fn that settles before any await
CallSettlesAtOnce(fn) ==
  /\ tasks' = tasks
  /\ settled' # settled
  /\ settled'.fn = fn

\* the argument of the call of fn that the step is
CallArgument(fn) ==
  IF tasks' = tasks THEN settled'.arg
  ELSE (CHOOSE t \in BagToSet(tasks') : Suspends(t, fn)).arg

SixCharacters(otp) == otp.t = "string" /\ Len(otp.s) = 6

(***************************************************************************)
(* C29: verifyOTP hands a code to confirmationResult.confirm only if a     *)
(* login has resolved and no logout has resolved since; otherwise, and     *)
(* when the code is not exactly 6 characters long, it rejects without      *)
(* contacting the auth provider, sets an error that is not null and leaves *)
(* user as it was.                                                         *)
(***************************************************************************)
C29_ConfirmOnlyAfterLogin ==
  [][/\ CallSuspends("verifyOTP") =>
          /\ \A t \in BagToSet(tasks') : Suspends(t, "verifyOTP") => t.pc = "confirm"
          /\ firebase.codeSent
          /\ SixCharacters(CallArgument("verifyOTP"))
     /\ CallSuspends("verifyOTP") \/ CallSettlesAtOnce("verifyOTP") =>
          (~firebase.codeSent \/ ~SixCharacters(CallArgument("verifyOTP"))
             => CallSettlesAtOnce("verifyOTP"))
     /\ CallSettlesAtOnce("verifyOTP") =>
          /\ settled'.outcome.kind = "error"
          /\ authContext'.error # Null
          /\ authContext'.user = authContext.user
          /\ firebase' = firebase]_vars

\* a login has resolved, nobody is signed in, and the code given to verifyOTP
\* is with the provider
C29_Witness ==
  \E t \in BagToSet(tasks) :
    /\ Suspended(t, "verifyOTP", "confirm")
    /\ firebase.codeSent
    /\ firebase.userDoc # Undefined
    /\ firebase.currentUser = Null

\* the step settles a call of fn that was waiting
SettlesWaiting(fn) ==
  /\ tasks' # tasks
  /\ settled' # settled
  /\ settled'.fn = fn

\* C26: in the step in which a changeLanguage(l) that went past the check
\* 'lang === language' resolves, the language of the context, the active
\* language of i18n and the 'preferredLanguage' entry of localStorage all
\* become lowercase(l), for signed-in users and others, whatever happens to
\* the write to Firestore.
C26_ResolvedLanguageEverywhere ==
  [][SettlesWaiting("changeLanguage") /\ settled'.outcome.kind = "return"
       => /\ languageContext'.language = toLowerCase(settled'.arg)
          /\ browser'.i18n = toLowerCase(settled'.arg)
          /\ browser'.preferredLanguage = toLowerCase(settled'.arg)]_vars

\* a signed-in user without a user document called changeLanguage("TA"), it
\* resolved, and the write to Firestore has failed
C26_Witness ==
  /\ settled.fn = "changeLanguage"
  /\ settled.by = "application"
  /\ settled.outcome.kind = "return"
  /\ settled.arg = Str(<<"TA">>)
  /\ languageContext.language = Str(<<"ta">>)
  /\ browser = [i18n |-> Str(<<"ta">>), preferredLanguage |-> Str(<<"ta">>)]
  /\ firebase.currentUser = FirebaseUser
  /\ firebase.userDoc = Undefined
  /\ firebase.pending = <<>>
  /\ tasks = EmptyBag

\* a language that neither localStorage nor the user document holds when the
\* provider mounts: it becomes the language only by a call that went through
NotStored == Str(<<"ta">>)

\* C27: for a signed-in user, when the last call to settle is a
\* changeLanguage(X) of the application that resolved, X is the language,
\* X was not stored before, and no call of the application is under way, no
\* step changes the language: the listener of the auth-state effect does
\* not switch it back to what the user document held.
C27_LanguageStaysUntilNextCall ==
  [][/\ Truthy(firebase.currentUser)
     /\ settled.fn = "changeLanguage"
     /\ settled.by = "application"
     /\ settled.outcome.kind = "return"
     /\ toLowerCase(settled.arg) = NotStored
     /\ languageContext.language = NotStored
     /\ RunningBy("application") = {}
     => languageContext'.language = languageContext.language]_vars

\* C30: the step in which a changeLanguage call rejects leaves a non-null
\* error, and the language of the context, the active language of i18n and
\* the entry of localStorage as they were.
C30_RejectedCallLeavesPreference ==
  [][settled' # settled /\ settled'.fn = "changeLanguage"
       /\ settled'.outcome.kind = "error"
       => /\ languageContext'.error # Null
          /\ languageContext'.language = languageContext.language
          /\ browser' = browser]_vars

\* askGemini returned chatId to the user userId
Created(userId, chatId) ==
  \E i \in Invocations :
    /\ Succeeded(i)
    /\ op[i] = "askGemini"
    /\ Get(Get(context[i], "auth"), "uid") = userId
    /\ Get(outcome[i].value, "chatId") = chatId

\* the read was answered by the store
Answered(fn) ==
  /\ SettlesWaiting(fn)
  /\ \A error \in ReadErrors :
       /\ settled'.outcome.message # getChatByIdErrorMessage(error)
       /\ settled'.outcome.message # getChatHistoryErrorMessage(error)

\* C28: a getChatById(u, chatId) that the store answers, for a chatId that
\* askGemini has returned to u, succeeds with the record that is stored, and
\* a getChatHistory(u) that the store answers holds every chat that askGemini
\* has returned to u (the model stores fewer chats than any limit).
C28_OwnChatsReadBack ==
  [][/\ Answered("getChatById") /\ Created(settled'.arg.a[1], settled'.arg.a[2])
        => /\ settled'.outcome.kind = "return"
           /\ \A k \in DOMAIN chats[ChatPath(settled'.arg.a[1], settled'.arg.a[2].s[1])].f
                       \ {"timestamp"} :
                Get(Get(settled'.outcome.value, "chat"), k)
                  = Get(chats[ChatPath(settled'.arg.a[1], settled'.arg.a[2].s[1])], k)
     /\ Answered("getChatHistory")
        => /\ settled'.outcome.kind = "return"
           /\ \A id \in ChatIds :
                Created(settled'.arg.a[1], Str(<<id>>))
                  => \E n \in DOMAIN Get(settled'.outcome.value, "chats").a :
                       Get(Get(settled'.outcome.value, "chats").a[n], "id") = Str(<<id>>)]_vars

============================================================================
